---- MODULE Spec2Model ----
(***************************************************************************)
(* Solution-first problem generation engine of the math problem generator: *)
(* the linear-equation generator (backend/generator_linear_impl.py), the   *)
(* linear-inequality generator (backend/generator_inequalities_impl.py)    *)
(* and the generator registry (backend/generators/__init__.py).            *)
(*                                                                         *)
(* A generate call is a pipeline: choose target -> construct -> verify ->  *)
(* synthesize steps -> assemble.  Each call's locals are indexed by the    *)
(* call; the random source and the registries are shared by all calls.     *)
(* SymPy is modelled by exact rational arithmetic on linear expressions    *)
(* k*x + m, its solvers by the exact solution of a linear (in)equation.    *)
(***************************************************************************)
EXTENDS Integers, Sequences, FiniteSets, TLC

-----------------------------------------------------------------------------
(* Bounds of the model (not program constants).                            *)

\* cap on |target| for the draws of a target value
MaxTarget == 2
\* cap on |b|, |const| for the draws of an additive constant
MaxOffset == 1
\* number of generate calls that run concurrently in SpecConc
NumCalls == 2
\* cap on |value| of every draw in SpecConc
ConcCap == 1
\* the shared random source is abstracted to a position on a cycle
RngPeriod == 2
\* difficulties tried by a caller: 1 - DifficultySlack .. 4 + DifficultySlack
DifficultySlack == 1
\* the difficulty levels of recorded attempts and of the bounds given to
\* the recommendation: 1 .. MaxLevel
MaxLevel == 2
\* the attempts of the closed recommendation loop
MaxRounds == 6
\* the lines of the problems file
MaxLines == 4
\* the prerequisite entries of a concept registry, all concepts together
MaxEdges == 4

-----------------------------------------------------------------------------
(* Program constants: the ranges of the random draws.                      *)

\* adaptive.py: the number of recent attempts the recommendation looks at
MinDifficultyDefault == 1
MaxDifficultyDefault == 6
DefaultDifficulty == 2
RecentWindow == 5
EqTargetMax12 == 10
EqTargetMax34 == 20
EqD1BMax == 10
EqCoeffMax == 5
EqOffsetMax == 10
EqD4PMax == 5
EqD4QMax == 3
IneqD1TargetMax == 10
IneqD2CoeffMax == 5
IneqD2TargetMax == 20
IneqD2ConstMax == 10
IneqD2bTargetMax == 10
IneqD3CoeffMax == 7
IneqD3ConstMax == 10
IneqD3TargetMax == 20
IneqD4CoeffMax == 10
IneqD4ConstMax == 20
IneqD4TargetMax == 30

Min(m, n) == IF m <= n THEN m ELSE n
Max(m, n) == IF m >= n THEN m ELSE n
Abs(n) == IF n < 0 THEN -n ELSE n

\* random.randint(lo, hi), restricted to the values a draw profile allows
randint(lo, hi, allowed) == {v \in lo .. hi : v \in allowed}

-----------------------------------------------------------------------------
(* Exact rationals <<n, d>>, d > 0, gcd(n, d) = 1 (sympy.Rational).        *)

RECURSIVE GCD(_, _)
GCD(m, n) == IF n = 0 THEN m ELSE GCD(n, m % n)

Rational(p, q) ==
    LET s == IF q < 0 THEN -1 ELSE 1
        g == GCD(Abs(p), Abs(q))
    IN  <<(s * p) \div g, (s * q) \div g>>

RInt(n) == <<n, 1>>
RAdd(r, s) == Rational(r[1] * s[2] + s[1] * r[2], r[2] * s[2])
RNeg(r) == <<-r[1], r[2]>>
RSub(r, s) == RAdd(r, RNeg(s))
RMul(r, s) == Rational(r[1] * s[1], r[2] * s[2])
RDiv(r, s) == Rational(r[1] * s[2], r[2] * s[1])
RLess(r, s) == r[1] * s[2] < s[1] * r[2]
RZero == RInt(0)
ROne == RInt(1)

-----------------------------------------------------------------------------
(* Linear expressions k*x + m in SymPy's canonical (auto-collected) form.  *)

Expr(k, m) == [k |-> k, m |-> m]
Const(m) == Expr(RZero, m)
EAdd(e, f) == Expr(RAdd(e.k, f.k), RAdd(e.m, f.m))
ESub(e, f) == Expr(RSub(e.k, f.k), RSub(e.m, f.m))
EDiv(e, r) == Expr(RDiv(e.k, r), RDiv(e.m, r))
X == Expr(ROne, RZero)

\* sympy.latex of an expression: the nonzero terms, each with its sign
\* split from its magnitude and the fraction in lowest terms; "0" when no
\* term is left.  (The order of the terms in the string is not modelled.)
TexTerm(r, var) ==
    [sgn |-> IF r[1] < 0 THEN "-" ELSE "+", num |-> Abs(r[1]), den |-> r[2], var |-> var]

latex(e) ==
    IF e.k = RZero /\ e.m = RZero
    THEN << TexTerm(RZero, "") >>
    ELSE (IF e.k # RZero THEN << TexTerm(e.k, "x") >> ELSE << >>)
         \o (IF e.m # RZero THEN << TexTerm(e.m, "") >> ELSE << >>)

\* sympy.latex(Eq(l, r))
latexEq(l, r) == [lhs |-> latex(l), rhs |-> latex(r)]

\* sympy.solve(Eq(lhs, rhs), x): the list of solutions.  An equation whose
\* sides have the same coefficient of x evaluates to True or False and
\* solve returns [] for either.
solve(lhs, rhs) ==
    IF lhs.k = rhs.k
    THEN << >>
    ELSE << RDiv(RSub(rhs.m, lhs.m), RSub(lhs.k, rhs.k)) >>

-----------------------------------------------------------------------------
(* generator_linear_impl.py: the constructors, as functions of the draws.  *)

\* x + b = c or x - b = c, c computed from the target
build_difficulty_1_equation(x0, b, plus) ==
    IF plus
    THEN [lhs |-> EAdd(X, Const(RInt(b))), rhs |-> Const(RInt(x0 + b))]
    ELSE [lhs |-> ESub(X, Const(RInt(b))), rhs |-> Const(RInt(x0 - b))]

\* the re-roll condition of the Tier 2 loop: a is zero or trivial
\* (the trivial coefficient 1 let through)
d2_reroll_zero_only(a) == a = 0
d2_reroll(a) == a = 0 \/ a = 1

\* a*x + b = c, c computed from the target
build_difficulty_2_equation(x0, a, b) ==
    [lhs |-> Expr(RInt(a), RInt(b)), rhs |-> Const(RInt(a * x0 + b))]

\* the re-roll conditions of the two Tier 3 loops
d3_reroll_a(a) == a = 0
\* (the second loop without its c == a test)
d3_reroll_c_zero_only(a, c) == c = 0
d3_reroll_c(a, c) == c = 0 \/ c = a

\* (a sign slip in the back-solving)
d3_backsolve_sign(a, c, x0, b) == (a + c) * x0 + b

\* the back-solved constant of the right-hand side (Tiers 3 and 4)
d3_backsolve(a, c, x0, b) == (a - c) * x0 + b
d4_backsolve(a, c, x0, b) == RAdd(RMul(RSub(a, c), RInt(x0)), RInt(b))

\* a*x + b = c*x + d with d back-solved from the target
build_difficulty_3_equation(x0, a, c, b) ==
    [lhs |-> Expr(RInt(a), RInt(b)),
     rhs |-> Expr(RInt(c), RInt(d3_backsolve(a, c, x0, b)))]

\* a signed rational coefficient +-(p/q)
d4_coeff(p, q, negate) == IF negate THEN RNeg(Rational(p, q)) ELSE Rational(p, q)

\* the re-roll condition of the Tier 4 loop
d4_reroll(a, c) == a = c

\* (p/q)*x + b = (r/s)*x + d with d back-solved from the target
build_difficulty_4_equation(x0, a, c, b) ==
    [lhs |-> Expr(a, RInt(b)), rhs |-> Expr(c, d4_backsolve(a, c, x0, b))]

\* solutions == [expected_solution]
verify_equation(lhs, rhs, expected_solution) ==
    solve(lhs, rhs) = << RInt(expected_solution) >>

-----------------------------------------------------------------------------
(* generator_linear_impl.py: the step synthesizer.                         *)

\* Optional constant term: << >> is None
get_constant_term(e) ==
    IF e.k # RZero /\ e.m # RZero THEN << e.m >>
    ELSE IF e.k = RZero THEN << e.m >>
    ELSE << >>

\* (the constant term never found)
constant_or_zero_none(e) == RZero

\* get_constant_term(e) or 0
constant_or_zero(e) ==
    IF get_constant_term(e) = << >> THEN RZero ELSE get_constant_term(e)[1]

\* sp.Poly(e, x).nth(1)
nth1(e) == e.k

SolutionStep(index, op, arg, expression) ==
    [index |-> index,
     description_latex |-> [op |-> op, arg |-> arg],
     expression_latex |-> expression]

\* (the step counter forgotten: every subtraction numbered as the first step)
Subtract_first(index, term, l, r) == SolutionStep(0, "Subtract", latex(term), latexEq(l, r))
Subtract(index, term, l, r) == SolutionStep(index, "Subtract", latex(term), latexEq(l, r))
\* (the description without the coefficient)
Divide_unrendered(index, coeff, l, r) == SolutionStep(index, "Divide", << >>, latexEq(l, r))
Divide(index, coeff, l, r) == SolutionStep(index, "Divide", latex(Const(coeff)), latexEq(l, r))
\* (the answer printed with the wrong sign)
Simplify_negated(index, x0) ==
    SolutionStep(index, "Simplify", << >>, latexEq(X, Const(RInt(-x0))))
Simplify(index, x0) == SolutionStep(index, "Simplify", << >>, latexEq(X, Const(RInt(x0))))

\* (the derivation opened by a step that restates the equation)
steps_difficulty_1_restated(lhs, rhs, x0) ==
    LET ct == get_constant_term(lhs)
    IN  << SolutionStep(0, "Simplify", << >>, latexEq(lhs, rhs)),
           Subtract(1, Const(ct[1]), X, ESub(rhs, Const(ct[1]))),
           Simplify(2, x0) >>

steps_difficulty_1(lhs, rhs, x0) ==
    LET ct == get_constant_term(lhs)
        sub == ct # << >> /\ ct[1] # RZero
        s1 == IF sub
              THEN << Subtract(0, Const(ct[1]), X, ESub(rhs, Const(ct[1]))) >>
              ELSE << >>
        i1 == IF sub THEN 1 ELSE 0
    IN  s1 \o << Simplify(i1, x0) >>

steps_difficulty_2(lhs, rhs, x0) ==
    LET ct == get_constant_term(lhs)
        sub == ct # << >> /\ ct[1] # RZero
        l1 == IF sub THEN ESub(lhs, Const(ct[1])) ELSE lhs
        r1 == IF sub THEN ESub(rhs, Const(ct[1])) ELSE rhs
        s1 == IF sub THEN << Subtract(0, Const(ct[1]), l1, r1) >> ELSE << >>
        i1 == IF sub THEN 1 ELSE 0
        coeff_x == IF l1 # X THEN nth1(l1) ELSE ROne
        div == coeff_x # RZero /\ coeff_x # ROne
        s2 == IF div
              THEN << Divide(i1, coeff_x, EDiv(l1, coeff_x), EDiv(r1, coeff_x)) >>
              ELSE << >>
        i2 == IF div THEN i1 + 1 ELSE i1
    IN  s1 \o s2 \o << Simplify(i2, x0) >>

steps_difficulty_3(lhs, rhs, x0) ==
    LET rhs_coeff == nth1(rhs)
        rhs_const == constant_or_zero(rhs)
        l1 == ESub(lhs, Expr(rhs_coeff, RZero))
        r1 == Const(rhs_const)
        s1 == << Subtract(0, Expr(rhs_coeff, RZero), l1, r1) >>
        lhs_const == constant_or_zero(l1)
        sub == lhs_const # RZero
        l2 == IF sub THEN ESub(l1, Const(lhs_const)) ELSE l1
        r2 == IF sub THEN ESub(r1, Const(lhs_const)) ELSE r1
        s2 == IF sub THEN << Subtract(1, Const(lhs_const), l2, r2) >> ELSE << >>
        i2 == IF sub THEN 2 ELSE 1
        coeff_x == nth1(l2)
        div == coeff_x # RZero /\ coeff_x # ROne
        s3 == IF div THEN << Divide(i2, coeff_x, X, EDiv(r2, coeff_x)) >> ELSE << >>
        i3 == IF div THEN i2 + 1 ELSE i2
    IN  s1 \o s2 \o s3 \o << Simplify(i3, x0) >>

steps_difficulty_4(lhs, rhs, x0) ==
    LET rhs_coeff == nth1(rhs)
        rhs_const == constant_or_zero(rhs)
        l1 == ESub(lhs, Expr(rhs_coeff, RZero))
        r1 == Const(rhs_const)
        s1 == << Subtract(0, Expr(rhs_coeff, RZero), l1, r1) >>
        lhs_const == constant_or_zero(l1)
        sub == lhs_const # RZero
        l2 == IF sub THEN ESub(l1, Const(lhs_const)) ELSE l1
        r2 == IF sub THEN ESub(r1, Const(lhs_const)) ELSE r1
        s2 == IF sub THEN << Subtract(1, Const(lhs_const), l2, r2) >> ELSE << >>
        i2 == IF sub THEN 2 ELSE 1
        coeff_x == nth1(l2)
        div == coeff_x # RZero /\ coeff_x # ROne
        s3 == IF div THEN << Divide(i2, coeff_x, X, EDiv(r2, coeff_x)) >> ELSE << >>
        i3 == IF div THEN i2 + 1 ELSE i2
    IN  s1 \o s2 \o s3 \o << Simplify(i3, x0) >>

construct_solution_steps(difficulty, lhs, rhs, x0) ==
    IF difficulty = 1 THEN steps_difficulty_1(lhs, rhs, x0)
    ELSE IF difficulty = 2 THEN steps_difficulty_2(lhs, rhs, x0)
    ELSE IF difficulty = 3 THEN steps_difficulty_3(lhs, rhs, x0)
    ELSE steps_difficulty_4(lhs, rhs, x0)

-----------------------------------------------------------------------------
(* generator_inequalities_impl.py.  A Python string is the sequence of its *)
(* blank-separated tokens ("2*x" is the three tokens 2, *, x).             *)

Operators == {"<", "<=", ">", ">="}

\* largest magnitude of an integer that is printed into a string
MaxPrinted == IneqD4TargetMax + 1

\* str(n) of a Python int, and the integer literal read back by sympify
str(n) == ToString(n)
int(s) == CHOOSE n \in -MaxPrinted .. MaxPrinted : ToString(n) = s

\* an f-string with one blank between its fields, after replace("  ", " "):
\* an empty field leaves no token
fields(tokens) == SelectSeq(tokens, LAMBDA t : t # "")

\* sign = "+" if const >= 0 else ""
sign(const) == IF const >= 0 THEN "+" ELSE ""

InequalityProblem(left, operator, right) ==
    [left_expr_str |-> left, operator |-> operator, right_expr_str |-> right]

\* x op target
build_difficulty_1_inequality(operator, target) ==
    InequalityProblem(<< "x" >>, operator, << str(target) >>)

\* coeff*x op target, or x + const op target
build_difficulty_2_inequality(operator, first, coeff, const, target) ==
    IF first
    THEN InequalityProblem(<< str(coeff), "*", "x" >>, operator, << str(target) >>)
    ELSE InequalityProblem(fields(<< "x", sign(const), str(const) >>), operator,
                           << str(target) >>)

\* coeff*x + const op target
build_difficulty_3_inequality(operator, coeff, const, target) ==
    InequalityProblem(fields(<< str(coeff), "*", "x", sign(const), str(const) >>),
                      operator, << str(target) >>)

build_difficulty_4_inequality(operator, coeff, const, target) ==
    InequalityProblem(fields(<< str(coeff), "*", "x", sign(const), str(const) >>),
                      operator, << str(target) >>)

\* sympy.sympify of the strings the constructors print: [n *] x [+ n | -n],
\* or a lone integer
sympify(s) ==
    LET lone == Len(s) = 1 /\ s[1] # "x"
        k    == IF s[1] = "x" THEN 1 ELSE int(s[1])
        rest == IF s[1] = "x" THEN SubSeq(s, 2, Len(s)) ELSE SubSeq(s, 4, Len(s))
        m    == IF rest = << >> THEN 0
                ELSE IF rest[1] = "+" THEN int(rest[2])
                ELSE int(rest[1])
    IN  IF lone THEN Const(RInt(int(s[1]))) ELSE Expr(RInt(k), RInt(m))

\* the operator with its direction reversed
flip(op) ==
    IF op = "<" THEN ">" ELSE IF op = "<=" THEN ">=" ELSE IF op = ">" THEN "<" ELSE "<="

\* what the relation says of two numbers
holds(r, op, t) ==
    IF op = "<" THEN RLess(r, t)
    ELSE IF op = "<=" THEN ~RLess(t, r)
    ELSE IF op = ">" THEN RLess(t, r)
    ELSE ~RLess(r, t)

\* solve_univariate_inequality(left op right, x, relational=False): the ray
\* x rel bound, the whole line or the empty set
solve_univariate_inequality(left, op, right) ==
    LET k == RSub(left.k, right.k)
        t == RSub(right.m, left.m)
    IN  IF k = RZero
        THEN [rel |-> IF holds(RZero, op, t) THEN "Reals" ELSE "EmptySet", bound |-> RZero]
        ELSE [rel |-> IF RLess(RZero, k) THEN op ELSE flip(op), bound |-> RDiv(t, k)]

\* str of a sympy Rational and of a sympy set
strRational(r) == IF r[2] = 1 THEN str(r[1]) ELSE str(r[1]) \o "/" \o str(r[2])

strSet(set) ==
    IF set.rel = "<" THEN << "Interval.open", "-oo", strRational(set.bound) >>
    ELSE IF set.rel = "<=" THEN << "Interval", "-oo", strRational(set.bound) >>
    ELSE IF set.rel = ">" THEN << "Interval.open", strRational(set.bound), "oo" >>
    ELSE IF set.rel = ">=" THEN << "Interval", strRational(set.bound), "oo" >>
    ELSE << set.rel >>

\* the set solved from an InequalityProblem, as the three callers compute it
solution_set(inequality) ==
    solve_univariate_inequality(sympify(inequality.left_expr_str), inequality.operator,
                                sympify(inequality.right_expr_str))

\* (True, str(solution_set)); no string the constructors print makes
\* sympify or the solver raise
verify_inequality(inequality) ==
    [is_valid |-> TRUE, details |-> strSet(solution_set(inequality))]

InequalityStep(index, description, expression) ==
    [index |-> index,
     description_latex |-> [op |-> description, arg |-> << >>],
     expression_latex |-> expression]

construct_inequality_steps(inequality) ==
    << InequalityStep(1, "Given inequality",
                      inequality.left_expr_str \o << inequality.operator >>
                          \o inequality.right_expr_str),
       InequalityStep(2, "Solve for x", strSet(solution_set(inequality))) >>

-----------------------------------------------------------------------------
(* The assembler of each generator and the generator registry.             *)

\* (the Tier 3 and Tier 4 entries exchanged)
concept_map_eq_swapped ==
    [t \in 1 .. 4 |->
        IF t = 1 THEN "alg1.linear_eq.one_step_int"
        ELSE IF t = 2 THEN "alg1.linear_eq.two_step_int"
        ELSE IF t = 3 THEN "alg1.linear_eq.both_sides"
        ELSE "alg1.linear_eq.multistep_one_side"]

concept_map_eq ==
    [t \in 1 .. 4 |->
        IF t = 1 THEN "alg1.linear_eq.one_step_int"
        ELSE IF t = 2 THEN "alg1.linear_eq.two_step_int"
        ELSE IF t = 3 THEN "alg1.linear_eq.multistep_one_side"
        ELSE "alg1.linear_eq.both_sides"]

concept_map_ineq ==
    [t \in 1 .. 4 |->
        IF t = 1 THEN "alg1.linear_ineq.one_step_int"
        ELSE IF t = 2 THEN "alg1.linear_ineq.two_step_int"
        ELSE IF t = 3 THEN "alg1.linear_ineq.negative_coeff_reverse"
        ELSE "alg1.linear_ineq.rational_coeffs"]

\* " \\ ".join(f"{description} \\ {expression}" for each step)
full_solution_latex(steps) ==
    [n \in 1 .. Len(steps) |->
        << steps[n].description_latex, steps[n].expression_latex >>]

\* (the flag left at a default instead of the verifier's result)
Solution_unverified(steps, final_answer_latex, sympy_verified, verification_details) ==
    [full_solution_latex |-> full_solution_latex(steps),
     steps |-> steps,
     final_answer_latex |-> final_answer_latex,
     sympy_verified |-> FALSE,
     verification_details |-> verification_details]

Solution(steps, final_answer_latex, sympy_verified, verification_details) ==
    [full_solution_latex |-> full_solution_latex(steps),
     steps |-> steps,
     final_answer_latex |-> final_answer_latex,
     sympy_verified |-> sympy_verified,
     verification_details |-> verification_details]

\* Problem(...) of generate_linear_equation_problem
equation_problem(difficulty, lhs, rhs, x0, steps, verified, details) ==
    [course_id |-> "algebra_1",
     unit_id |-> "alg1_unit_linear_equations",
     topic_id |-> "alg1_linear_solve_one_var",
     difficulty |-> difficulty,
     prompt_latex |-> [text |-> "Solve for $x$: ", body |-> latexEq(lhs, rhs)],
     answer_type |-> "numeric",
     final_answer |-> x0,
     solution |-> Solution(steps, latex(Const(RInt(x0))), verified, details),
     primary_concept_id |-> concept_map_eq[difficulty],
     concept_ids |-> << concept_map_eq[difficulty] >>]

\* Problem(...) of generate_linear_inequality_problem
inequality_problem(difficulty, inequality, steps, is_valid, details) ==
    [course_id |-> "alg1",
     unit_id |-> "alg1_linear_eqs",
     topic_id |-> "alg1_linear_inequalities_one_var",
     difficulty |-> difficulty,
     prompt_latex |-> inequality.left_expr_str \o << inequality.operator >>
                          \o inequality.right_expr_str,
     answer_type |-> "expression",
     final_answer |-> strSet(solution_set(inequality)),
     solution |-> Solution(steps, strSet(solution_set(inequality)), is_valid, details),
     primary_concept_id |-> concept_map_ineq[difficulty],
     concept_ids |-> << concept_map_ineq[difficulty] >>]

\* (the range test without its upper end)
invalid_difficulty_ineq_no_upper(difficulty) == ~(1 <= difficulty)

\* the guards on the difficulty argument
invalid_difficulty_eq(difficulty) == difficulty \notin {1, 2, 3, 4}
invalid_difficulty_ineq(difficulty) == ~(1 <= difficulty /\ difficulty <= 4)

\* the registry after _ensure_generators_registered(): topic id -> class
registered_generators ==
    [t \in {"alg1_linear_solve_one_var", "alg1_linear_inequalities_one_var",
            "sat_linear", "sat_quadratic", "sat_statistics",
            "ap_deriv_rules", "ap_deriv_chain", "ap_int_ftc", "ap_series_conv",
            "algebra", "geometry"} |->
        IF t \in {"alg1_linear_solve_one_var", "algebra"} THEN "LinearEquationGenerator"
        ELSE IF t \in {"alg1_linear_inequalities_one_var", "geometry"}
             THEN "InequalityProblemGenerator"
        ELSE IF t = "sat_linear" THEN "SATLinearEquationGenerator"
        ELSE IF t = "sat_quadratic" THEN "SATQuadraticGenerator"
        ELSE IF t = "sat_statistics" THEN "SATDataStatsGenerator"
        ELSE IF t = "ap_deriv_rules" THEN "APCalcDerivativePowerRuleGenerator"
        ELSE IF t = "ap_deriv_chain" THEN "APCalcChainRuleGenerator"
        ELSE IF t = "ap_int_ftc" THEN "APCalcIntegralFTCGenerator"
        ELSE "APCalcBCSeriesGenerator"]

\* the topic_id attribute of a generator class (the classes of the source,
\* and classes a caller defines and registers under their own topic)
topic_id_of(class) ==
    IF class = "LinearEquationGenerator" THEN "alg1_linear_solve_one_var"
    ELSE IF class = "InequalityProblemGenerator" THEN "alg1_linear_inequalities_one_var"
    ELSE IF class = "SATLinearEquationGenerator" THEN "sat_linear"
    ELSE IF class = "SATQuadraticGenerator" THEN "sat_quadratic"
    ELSE IF class = "SATDataStatsGenerator" THEN "sat_statistics"
    ELSE IF class = "APCalcDerivativePowerRuleGenerator" THEN "ap_deriv_rules"
    ELSE IF class = "APCalcChainRuleGenerator" THEN "ap_deriv_chain"
    ELSE IF class = "APCalcIntegralFTCGenerator" THEN "ap_int_ftc"
    ELSE IF class = "APCalcBCSeriesGenerator" THEN "ap_series_conv"
    ELSE IF class = "CallerGeneratorA" THEN "caller_topic_a"
    ELSE IF class = "CallerGeneratorB" THEN "caller_topic_b"
    ELSE "caller_topic_c"

\* _generators[topic_id] = generator
register_generator(registry, topic_id, generator) ==
    [t \in DOMAIN registry \cup {topic_id} |-> IF t = topic_id THEN generator ELSE registry[t]]

\* (a missing topic answered with the linear-equation generator)
get_generator_or_default(registry, topic_id) ==
    [call |-> "get_generator_for_topic", arg |-> topic_id, raised |-> "none",
     returned |-> << IF topic_id \in DOMAIN registry THEN registry[topic_id]
                     ELSE "LinearEquationGenerator" >>]
get_generator_for_topic(registry, topic_id) ==
    IF topic_id \notin DOMAIN registry
    THEN [call |-> "get_generator_for_topic", arg |-> topic_id, raised |-> "KeyError",
          returned |-> << >>]
    ELSE [call |-> "get_generator_for_topic", arg |-> topic_id, raised |-> "none",
          returned |-> << registry[topic_id] >>]

\* list(_generators.keys()) (the order of the keys is not modelled)
list_registered_topics(registry) ==
    [call |-> "list_registered_topics", arg |-> "", raised |-> "none",
     returned |-> DOMAIN registry]

\* the implementation a generator class delegates generate() to
generate_of(class) ==
    IF class = "LinearEquationGenerator" THEN "eq"
    ELSE IF class = "InequalityProblemGenerator" THEN "ineq"
    ELSE "other"

\* the entries of concepts.CONCEPTS the two generators tag problems with,
\* and their neighbours in the same units: id -> difficulty range
registered_concepts ==
    [id \in {"alg1.linear_eq.one_step_int", "alg1.linear_eq.two_step_int",
             "alg1.linear_eq.multistep_one_side", "alg1.linear_eq.both_sides",
             "alg1.linear_eq.rational_coeffs", "alg1.linear_eq.special_identity",
             "alg1.linear_ineq.one_step_int", "alg1.linear_ineq.two_step_int",
             "alg1.linear_ineq.negative_coeff_reverse",
             "alg1.linear_ineq.rational_coeffs", "alg1.linear_ineq.compound"} |->
        IF id = "alg1.linear_eq.one_step_int" THEN [difficulty_min |-> 1, difficulty_max |-> 1]
        ELSE IF id = "alg1.linear_eq.two_step_int" THEN [difficulty_min |-> 2, difficulty_max |-> 2]
        ELSE IF id = "alg1.linear_eq.multistep_one_side" THEN [difficulty_min |-> 2, difficulty_max |-> 3]
        ELSE IF id = "alg1.linear_eq.both_sides" THEN [difficulty_min |-> 3, difficulty_max |-> 3]
        ELSE IF id = "alg1.linear_eq.rational_coeffs" THEN [difficulty_min |-> 3, difficulty_max |-> 4]
        ELSE IF id = "alg1.linear_eq.special_identity" THEN [difficulty_min |-> 4, difficulty_max |-> 5]
        ELSE IF id = "alg1.linear_ineq.one_step_int" THEN [difficulty_min |-> 1, difficulty_max |-> 2]
        ELSE IF id = "alg1.linear_ineq.two_step_int" THEN [difficulty_min |-> 2, difficulty_max |-> 3]
        ELSE IF id = "alg1.linear_ineq.negative_coeff_reverse" THEN [difficulty_min |-> 3, difficulty_max |-> 3]
        ELSE IF id = "alg1.linear_ineq.rational_coeffs" THEN [difficulty_min |-> 3, difficulty_max |-> 4]
        ELSE [difficulty_min |-> 4, difficulty_max |-> 5]]

-----------------------------------------------------------------------------
(* adaptive.py: the difficulty recommendation, a pure function of its      *)
(* arguments.                                                              *)

\* tracking.Attempt, the fields the recommendation reads
Attempt(user_id, topic_id, difficulty, is_correct) ==
    [user_id |-> user_id, topic_id |-> topic_id,
     difficulty |-> difficulty, is_correct |-> is_correct]

\* (the filter that forgets the topic)
matches_user_only(att, user_id, topic_id) == att.user_id = user_id

\* a.user_id == user_id and a.topic_id == topic_id
matches(att, user_id, topic_id) == att.user_id = user_id /\ att.topic_id = topic_id

\* [a for a in attempts if ...]
topic_attempts_of(user_id, topic_id, attempts) ==
    SelectSeq(attempts, LAMBDA att : matches(att, user_id, topic_id))

\* seq[-n:]
last(seq, n) == SubSeq(seq, Max(1, Len(seq) - n + 1), Len(seq))

\* the thresholds 0.8 and 0.6.  correct_count / len(recent_attempts) is a
\* correctly rounded double of a fraction with denominator at most 5, and
\* the literals are the doubles nearest 4/5 and 3/5, so the comparisons of
\* doubles agree with the comparisons of the exact fractions.
increase_above == Rational(4, 5)
decrease_below == Rational(3, 5)

\* (the comparison that also raises the difficulty at the threshold)
very_successful_inclusive(success_rate) == ~RLess(success_rate, increase_above)

\* success_rate > 0.8, success_rate < 0.6
very_successful(success_rate) == RLess(increase_above, success_rate)
\* (the lower threshold taken as 0)
struggling_below_zero(success_rate) == RLess(success_rate, RZero)
struggling(success_rate) == RLess(success_rate, decrease_below)

\* (the result returned without the clamp)
clamp_none(value, min_difficulty, max_difficulty) == value

\* max(min_difficulty, min(value, max_difficulty))
clamp(value, min_difficulty, max_difficulty) ==
    Max(min_difficulty, Min(value, max_difficulty))

\* (the difficulty moved to the bound at once rather than by one level)
recommend_jump_to_bound(user_id, topic_id, attempts, min_difficulty, max_difficulty, default_difficulty) ==
    LET topic_attempts == topic_attempts_of(user_id, topic_id, attempts)
        recent_attempts == last(topic_attempts, RecentWindow)
        correct_count ==
            Cardinality({n \in 1 .. Len(recent_attempts) : recent_attempts[n].is_correct})
        success_rate == Rational(correct_count, Len(recent_attempts))
        current_difficulty == recent_attempts[Len(recent_attempts)].difficulty
        recommended ==
            IF very_successful(success_rate) THEN max_difficulty
            ELSE IF struggling(success_rate) THEN min_difficulty
            ELSE current_difficulty
    IN  IF Len(topic_attempts) = 0
        THEN clamp(default_difficulty, min_difficulty, max_difficulty)
        ELSE clamp(recommended, min_difficulty, max_difficulty)

recommend_difficulty_for_user(user_id, topic_id, attempts, min_difficulty, max_difficulty, default_difficulty) ==
    LET topic_attempts == topic_attempts_of(user_id, topic_id, attempts)
        recent_attempts == last(topic_attempts, RecentWindow)
        correct_count ==
            Cardinality({n \in 1 .. Len(recent_attempts) : recent_attempts[n].is_correct})
        success_rate == Rational(correct_count, Len(recent_attempts))
        current_difficulty == recent_attempts[Len(recent_attempts)].difficulty
        recommended ==
            IF very_successful(success_rate) THEN current_difficulty + 1
            ELSE IF struggling(success_rate) THEN current_difficulty - 1
            ELSE current_difficulty
    IN  IF Len(topic_attempts) = 0
        THEN clamp(default_difficulty, min_difficulty, max_difficulty)
        ELSE clamp(recommended, min_difficulty, max_difficulty)

-----------------------------------------------------------------------------
(* concepts.py: the prerequisite graph of the concept registry.  A         *)
(* registry is a function of the registered ids; a dict is iterated in     *)
(* the order of ConceptOrder, a concept's prerequisites in list order.     *)

ConceptOrder == << "c1", "c2", "c3" >>

\* CONCEPTS.keys(), in order
keys(reg) == SelectSeq(ConceptOrder, LAMBDA id : id \in DOMAIN reg)

\* Check 1: one error for each prerequisite entry that is not registered
RECURSIVE missing_of(_, _, _)
missing_of(reg, id, n) ==
    IF n > Len(reg[id].prerequisites) THEN << >>
    ELSE (IF reg[id].prerequisites[n] \notin DOMAIN reg
          THEN << [error |-> "non-existent prerequisite", concept |-> id,
                   prerequisite |-> reg[id].prerequisites[n]] >>
          ELSE << >>) \o missing_of(reg, id, n + 1)

RECURSIVE missing_from(_, _)
missing_from(reg, m) ==
    IF m > Len(keys(reg)) THEN << >>
    ELSE missing_of(reg, keys(reg)[m], 1) \o missing_from(reg, m + 1)

\* (Check 1 left out)
missing_prerequisite_errors_none(reg) == << >>
missing_prerequisite_errors(reg) == missing_from(reg, 1)

\* has_cycle(concept_id, visited, rec_stack): the answer, and the two sets
\* as the call leaves them; has_cycle_from is its for loop from the n-th
\* prerequisite on
RECURSIVE has_cycle(_, _, _, _)
RECURSIVE has_cycle_from(_, _, _, _, _)
has_cycle(reg, concept_id, visited, rec_stack) ==
    has_cycle_from(reg, concept_id, 1, visited \cup {concept_id}, rec_stack \cup {concept_id})

has_cycle_from(reg, concept_id, n, visited, rec_stack) ==
    IF n > Len(reg[concept_id].prerequisites)
    THEN [found |-> FALSE, visited |-> visited, rec_stack |-> rec_stack \ {concept_id}]
    ELSE LET prereq_id == reg[concept_id].prerequisites[n]
         IN  IF prereq_id \notin DOMAIN reg
             THEN has_cycle_from(reg, concept_id, n + 1, visited, rec_stack)
             ELSE IF prereq_id \notin visited
             THEN LET below == has_cycle(reg, prereq_id, visited, rec_stack)
                  IN  IF below.found THEN below
                      ELSE has_cycle_from(reg, concept_id, n + 1, below.visited,
                                          below.rec_stack)
             ELSE IF prereq_id \in rec_stack
             THEN [found |-> TRUE, visited |-> visited, rec_stack |-> rec_stack]
             ELSE has_cycle_from(reg, concept_id, n + 1, visited, rec_stack)

\* Check 2: the loop over CONCEPTS.keys() from the m-th key on; one error
\* for the first cycle found, then break
RECURSIVE cycle_errors_from(_, _, _)
cycle_errors_from(reg, m, visited) ==
    IF m > Len(keys(reg)) THEN << >>
    ELSE IF keys(reg)[m] \in visited THEN cycle_errors_from(reg, m + 1, visited)
    ELSE LET root == has_cycle(reg, keys(reg)[m], visited, {})
         IN  IF root.found
             THEN << [error |-> "Cycle detected", concept |-> keys(reg)[m],
                      prerequisite |-> ""] >>
             ELSE cycle_errors_from(reg, m + 1, root.visited)

validate_concept_graph(reg) ==
    LET errors == missing_prerequisite_errors(reg) \o cycle_errors_from(reg, 1, {})
    IN  IF errors # << >>
        THEN [call |-> "validate_concept_graph", arg |-> "", raised |-> "ValueError",
              returned |-> << >>, message |-> errors]
        ELSE [call |-> "validate_concept_graph", arg |-> "", raised |-> "none",
              returned |-> errors, message |-> << >>]

\* the while loop of get_prerequisites_recursive: to_visit.pop() takes the
\* last element, extend() appends the prerequisites
RECURSIVE visit_all(_, _, _)
visit_all(reg, visited, to_visit) ==
    IF to_visit = << >> THEN visited
    ELSE LET cid == to_visit[Len(to_visit)]
             rest == SubSeq(to_visit, 1, Len(to_visit) - 1)
         IN  IF cid \in visited THEN visit_all(reg, visited, rest)
             ELSE visit_all(reg, visited \cup {cid},
                            IF cid \in DOMAIN reg THEN rest \o reg[cid].prerequisites
                            ELSE rest)

\* (the concept itself left in the set)
discard_nothing(visited, concept_id) == visited
\* visited.discard(concept_id)
discard(visited, concept_id) == visited \ {concept_id}

get_prerequisites_recursive(reg, concept_id) ==
    [call |-> "get_prerequisites_recursive", arg |-> concept_id, raised |-> "none",
     returned |-> discard(visit_all(reg, {}, << concept_id >>), concept_id)]

-----------------------------------------------------------------------------
(* storage.py: problems kept in a JSONL file, one JSON object per line.    *)
(* A file is whether it exists and the sequence of its lines; a line is    *)
(* the JSON text of one dictionary.  Python's None is << >>, a present     *)
(* value v is << v >>, and a dict is a function of its keys.               *)

\* no file at the path
NoFile == [exists |-> FALSE, lines |-> << >>]

\* models.Problem, with the fields the storage treats alike (course_id,
\* unit_id, topic_id, calculator_mode, answer_type, concept_ids, ...)
\* stood for by difficulty and prompt_latex
Problem(id, difficulty, prompt_latex, final_answer, metadata) ==
    [id |-> id, difficulty |-> difficulty, prompt_latex |-> prompt_latex,
     final_answer |-> final_answer, metadata |-> metadata]

\* the answer is stored as its string; of the metadata only the solution
problem_to_dict(p) ==
    [id |-> p.id, difficulty |-> p.difficulty, prompt_latex |-> p.prompt_latex,
     final_answer |-> str(p.final_answer),
     solution |-> IF "solution" \in DOMAIN p.metadata
                  THEN << [steps |-> p.metadata.solution.steps,
                           final_answer_latex |-> p.metadata.solution.final_answer_latex,
                           sympy_verified |-> p.metadata.solution.sympy_verified] >>
                  ELSE << >>]

\* the answer stays a string; the metadata holds the solution, if any
dict_to_problem(data) ==
    Problem(data.id, data.difficulty, data.prompt_latex, data.final_answer,
            IF data.solution # << >>
            THEN [solution |-> [steps |-> data.solution[1].steps,
                                final_answer_latex |-> data.solution[1].final_answer_latex,
                                sympy_verified |-> data.solution[1].sympy_verified]]
            ELSE << >>)

\* json.dumps and json.loads: the text of a dictionary, and back
json_dumps(data) == [json |-> data]
json_loads(line) == line.json

\* (the file opened with 'w': the line replaces the content)
write_line_truncating(f, line) == [exists |-> TRUE, lines |-> << line >>]
\* open(path, 'a') and f.write(line + '\n'): the file is created if absent
append_line(f, line) == [exists |-> TRUE, lines |-> Append(f.lines, line)]

save_problem(p, f) == append_line(f, json_dumps(problem_to_dict(p)))

RECURSIVE save_problems_batch(_, _)
save_problems_batch(ps, f) ==
    IF ps = << >> THEN f ELSE save_problems_batch(Tail(ps), save_problem(Head(ps), f))

load_problems(f) ==
    IF ~f.exists
    THEN [call |-> "load_problems", raised |-> "FileNotFoundError", returned |-> << >>]
    ELSE [call |-> "load_problems", raised |-> "none",
          returned |-> [n \in 1 .. Len(f.lines) |-> dict_to_problem(json_loads(f.lines[n]))]]

clear_problems_file(f) == IF f.exists THEN NoFile ELSE f

(* Word problems.  A Problem is an object the caller holds by reference:   *)
(* the wrapper keeps the reference it is given.                            *)

ProblemStyle(is_word_problem, reading_level, context_tags) ==
    [is_word_problem |-> is_word_problem, reading_level |-> reading_level,
     context_tags |-> context_tags]

\* the scenario texts, by context tag and reading level
CONTEXT_TEMPLATES ==
    [money |-> [grade_8 |-> "Sarah has {total} dollars. ...",
                high_school |-> "An investor buys {count} shares ..."],
     distance |-> [grade_8 |-> "A car travels {distance1} miles ..."],
     cooking |-> [grade_8 |-> "A recipe calls for {ingredient1} cups ..."]]

\* the template of the first context tag at the reading level, or the
\* equation itself
generate_word_problem(prompt_latex, style) ==
    IF style.context_tags # << >> /\ style.context_tags[1] \in DOMAIN CONTEXT_TEMPLATES
    THEN IF style.reading_level \in DOMAIN CONTEXT_TEMPLATES[style.context_tags[1]]
         THEN CONTEXT_TEMPLATES[style.context_tags[1]][style.reading_level]
         ELSE "Solve the problem: " \o prompt_latex
    ELSE "Solve: " \o prompt_latex

\* metadata[key] = value
setitem(metadata, key, value) ==
    [k \in DOMAIN metadata \cup {key} |-> IF k = key THEN value ELSE metadata[k]]

\* the Problem object of the wrapper after the two writes to its metadata
with_word_prompt(p, style) ==
    [p EXCEPT !.metadata =
        setitem(setitem(p.metadata, "word_problem_prompt",
                        generate_word_problem(p.prompt_latex, style)),
                "problem_style", style)]

\* a call that returned None
ReturnedNone(call) == [call |-> call, raised |-> "none", returned |-> << >>]

-----------------------------------------------------------------------------
(* State.  The variables from pc to error are functions of the call.       *)

VARIABLES
    pc,              \* where the call is in generate
    kind,            \* "eq" or "ineq": the implementation that runs
    difficulty,      \* the difficulty argument
    x0,              \* equations: the target
    drawn_target,    \* history: the target value the random source gave this call
    a, c,            \* equations: the coefficients being drawn (rationals)
    equation,        \* equations: [lhs, rhs]
    inequality,      \* inequalities: the InequalityProblem
    verified,        \* the verifier's flag
    verification_details,
    steps,           \* the derivation
    problem,         \* << >> or << the Problem returned >>
    error,           \* "none" or the exception raised
    rng,             \* the process-wide random source
    generators,      \* generators._generators
    CONCEPTS,        \* concepts.CONCEPTS
    attempts,        \* the attempts argument of the recommendation
    request,         \* the other arguments of a recommendation call, or NoRequest
    recommended,     \* the values the recommendation has returned to the caller
    file,            \* storage: the JSONL file at the path, or NoFile
    saved,           \* history: the problems saved to the path since it was last cleared
    outcome          \* the last call of a library function: what it returned or raised

locals == << pc, kind, difficulty, x0, drawn_target, a, c, equation, inequality, verified,
             verification_details, steps, problem, error >>
adaptive == << attempts, request, recommended >>
library == << file, saved, outcome >>
shared == << rng, generators, CONCEPTS, adaptive, library >>
vars == << pc, kind, difficulty, x0, drawn_target, a, c, equation, inequality, verified,
           verification_details, steps, problem, error, rng, generators, CONCEPTS,
           attempts, request, recommended, file, saved, outcome >>

NoRequest == [user_id |-> "", topic_id |-> "", min_difficulty |-> 0,
              max_difficulty |-> 0, default_difficulty |-> 0]

\* no library call yet
NoOutcome == [call |-> "none", raised |-> "none", returned |-> << >>]

NoEquation == [lhs |-> Const(RZero), rhs |-> Const(RZero)]
NoInequality == InequalityProblem(<< >>, "", << >>)

\* the locals of a call that has not started
InitCalls(calls) ==
    /\ pc = [i \in calls |-> "idle"]
    /\ kind = [i \in calls |-> "none"]
    /\ difficulty = [i \in calls |-> 0]
    /\ x0 = [i \in calls |-> 0]
    /\ drawn_target = [i \in calls |-> 0]
    /\ a = [i \in calls |-> RZero]
    /\ c = [i \in calls |-> RZero]
    /\ equation = [i \in calls |-> NoEquation]
    /\ inequality = [i \in calls |-> NoInequality]
    /\ verified = [i \in calls |-> FALSE]
    /\ verification_details = [i \in calls |-> << >>]
    /\ steps = [i \in calls |-> << >>]
    /\ problem = [i \in calls |-> << >>]
    /\ error = [i \in calls |-> "none"]

\* the module state after import; no attempt and no recommendation call yet
InitShared ==
    /\ rng = 0
    /\ generators = registered_generators
    /\ CONCEPTS = registered_concepts
    /\ attempts = << >>
    /\ request = NoRequest
    /\ recommended = << >>
    /\ file = NoFile
    /\ saved = << >>
    /\ outcome = NoOutcome

\* a draw profile: the values the random source is let to return (t: targets,
\* o: offsets, k: coefficients, ops: operators) and the calls the caller is
\* let to make (d: difficulties, g: generators)
FullDraws ==
    [t |-> -MaxTarget .. MaxTarget,
     o |-> -MaxOffset .. MaxOffset,
     k |-> -IneqD4CoeffMax .. IneqD4CoeffMax,
     d |-> (1 - DifficultySlack) .. (4 + DifficultySlack),
     ops |-> Operators,
     g |-> {"eq", "ineq"}]

\* n draws advance the random source
Drawn(n) == rng' = (rng + n) % RngPeriod

-----------------------------------------------------------------------------
(* generate_linear_equation_problem, step by step.                         *)

\* the ways a caller reaches a generator: the two functions, or generate()
\* of a generator looked up in the registry
EntryPoints ==
    {"eq", "ineq"} \cup {generate_of(generators[t]) : t \in DOMAIN generators}

\* the caller invokes generate(difficulty); the guard on the difficulty
\* raises ValueError
Call(i, P) ==
    /\ pc[i] = "idle"
    /\ \E g \in EntryPoints \cap P.g, dd \in P.d :
         /\ kind' = [kind EXCEPT ![i] = g]
         /\ difficulty' = [difficulty EXCEPT ![i] = dd]
         /\ IF (g = "eq" /\ invalid_difficulty_eq(dd))
               \/ (g = "ineq" /\ invalid_difficulty_ineq(dd))
            THEN /\ pc' = [pc EXCEPT ![i] = "raised"]
                 /\ error' = [error EXCEPT ![i] = "ValueError"]
            ELSE /\ pc' = [pc EXCEPT ![i] = IF g = "eq" THEN "choose" ELSE "build"]
                 /\ error' = error
    /\ UNCHANGED << x0, drawn_target, a, c, equation, inequality, verified, verification_details,
                    steps, problem, shared >>

\* (the target kept in a module-level variable that every call binds)
StoreTarget_global(f, i, t) == [j \in DOMAIN f |-> t]

\* x0 = _choose_target_solution(difficulty): the binding of the local
StoreTarget(f, i, t) == [f EXCEPT ![i] = t]

\* the range _choose_target_solution draws from (no range: it raises)
target_range(tier, P) ==
    IF tier \in {1, 2} THEN randint(-EqTargetMax12, EqTargetMax12, P.t)
    ELSE IF tier \in {3, 4} THEN randint(-EqTargetMax34, EqTargetMax34, P.t)
    ELSE {}

ChooseTarget(i, P) ==
    /\ pc[i] = "choose"
    /\ IF difficulty[i] \in {1, 2, 3, 4}
       THEN /\ \E t \in target_range(difficulty[i], P) :
                 /\ x0' = StoreTarget(x0, i, t)
                 /\ drawn_target' = [drawn_target EXCEPT ![i] = t]
            /\ pc' = [pc EXCEPT ![i] = "build"]
            /\ error' = error
            /\ Drawn(1)
       ELSE /\ pc' = [pc EXCEPT ![i] = "raised"]
            /\ error' = [error EXCEPT ![i] = "ValueError"]
            /\ UNCHANGED << x0, drawn_target, rng >>
    /\ UNCHANGED << kind, difficulty, a, c, equation, inequality, verified,
                    verification_details, steps, problem, generators, CONCEPTS,
                    adaptive, library >>

\* the constructor returns (lhs, rhs); its locals a, c are gone
Built(i, eq) ==
    /\ equation' = [equation EXCEPT ![i] = eq]
    /\ a' = [a EXCEPT ![i] = RZero]
    /\ c' = [c EXCEPT ![i] = RZero]
    /\ pc' = [pc EXCEPT ![i] = "verify"]
    /\ UNCHANGED << kind, difficulty, x0, drawn_target, inequality, verified, verification_details,
                    steps, problem, error, generators, CONCEPTS,
                    adaptive, library >>

\* a constructor draws a coefficient and goes to (or stays in) a loop
Rolled(i, an, cn, loop) ==
    /\ a' = [a EXCEPT ![i] = an]
    /\ c' = [c EXCEPT ![i] = cn]
    /\ pc' = [pc EXCEPT ![i] = loop]
    /\ UNCHANGED << kind, difficulty, x0, drawn_target, equation, inequality, verified,
                    verification_details, steps, problem, error, generators, CONCEPTS,
                    adaptive, library >>

BuildEq1(i, P) ==
    /\ pc[i] = "build" /\ kind[i] = "eq" /\ difficulty[i] = 1
    /\ \E b \in randint(1, EqD1BMax, P.o), plus \in BOOLEAN :
         Built(i, build_difficulty_1_equation(x0[i], b, plus))
    /\ Drawn(2)

DrawA2(i, P) ==
    /\ pc[i] = "build" /\ kind[i] = "eq" /\ difficulty[i] = 2
    /\ \E an \in randint(-EqCoeffMax, EqCoeffMax, P.k) : Rolled(i, RInt(an), c[i], "d2_loop")
    /\ Drawn(1)

RerollA2(i, P) ==
    /\ pc[i] = "d2_loop" /\ d2_reroll(a[i][1])
    /\ \E an \in randint(-EqCoeffMax, EqCoeffMax, P.k) : Rolled(i, RInt(an), c[i], "d2_loop")
    /\ Drawn(1)

BuildEq2(i, P) ==
    /\ pc[i] = "d2_loop" /\ ~d2_reroll(a[i][1])
    /\ \E b \in randint(-EqOffsetMax, EqOffsetMax, P.o) :
         Built(i, build_difficulty_2_equation(x0[i], a[i][1], b))
    /\ Drawn(1)

DrawA3(i, P) ==
    /\ pc[i] = "build" /\ kind[i] = "eq" /\ difficulty[i] = 3
    /\ \E an \in randint(-EqCoeffMax, EqCoeffMax, P.k) : Rolled(i, RInt(an), c[i], "d3_a_loop")
    /\ Drawn(1)

RerollA3(i, P) ==
    /\ pc[i] = "d3_a_loop" /\ d3_reroll_a(a[i][1])
    /\ \E an \in randint(-EqCoeffMax, EqCoeffMax, P.k) : Rolled(i, RInt(an), c[i], "d3_a_loop")
    /\ Drawn(1)

DrawC3(i, P) ==
    /\ pc[i] = "d3_a_loop" /\ ~d3_reroll_a(a[i][1])
    /\ \E cn \in randint(-EqCoeffMax, EqCoeffMax, P.k) : Rolled(i, a[i], RInt(cn), "d3_c_loop")
    /\ Drawn(1)

RerollC3(i, P) ==
    /\ pc[i] = "d3_c_loop" /\ d3_reroll_c(a[i][1], c[i][1])
    /\ \E cn \in randint(-EqCoeffMax, EqCoeffMax, P.k) : Rolled(i, a[i], RInt(cn), "d3_c_loop")
    /\ Drawn(1)

\* b and d are drawn; d is then overwritten by the back-solved value
BuildEq3(i, P) ==
    /\ pc[i] = "d3_c_loop" /\ ~d3_reroll_c(a[i][1], c[i][1])
    /\ \E b \in randint(-EqOffsetMax, EqOffsetMax, P.o),
          d \in randint(-EqOffsetMax, EqOffsetMax, P.o) :
         Built(i, build_difficulty_3_equation(x0[i], a[i][1], c[i][1], b))
    /\ Drawn(2)

DrawAC4(i, P) ==
    /\ pc[i] = "build" /\ kind[i] = "eq" /\ difficulty[i] = 4
    /\ \E p \in randint(1, EqD4PMax, P.k), q \in randint(1, EqD4QMax, P.k), na \in BOOLEAN,
          r \in randint(1, EqD4PMax, P.k), s \in randint(1, EqD4QMax, P.k), nc \in BOOLEAN :
         Rolled(i, d4_coeff(p, q, na), d4_coeff(r, s, nc), "d4_loop")
    /\ Drawn(6)

RerollC4(i, P) ==
    /\ pc[i] = "d4_loop" /\ d4_reroll(a[i], c[i])
    /\ \E r \in randint(1, EqD4PMax, P.k), s \in randint(1, EqD4QMax, P.k), nc \in BOOLEAN :
         Rolled(i, a[i], d4_coeff(r, s, nc), "d4_loop")
    /\ Drawn(3)

BuildEq4(i, P) ==
    /\ pc[i] = "d4_loop" /\ ~d4_reroll(a[i], c[i])
    /\ \E b \in randint(-EqOffsetMax, EqOffsetMax, P.o) :
         Built(i, build_difficulty_4_equation(x0[i], a[i], c[i], b))
    /\ Drawn(1)

\* the text of the verifier's explanation
equation_details(lhs, rhs, expected_solution) ==
    IF verify_equation(lhs, rhs, expected_solution)
    THEN << "Verified", latexEq(lhs, rhs), latex(Const(RInt(expected_solution))) >>
    ELSE << "Solution mismatch", latex(Const(RInt(expected_solution))),
            [n \in 1 .. Len(solve(lhs, rhs)) |-> latex(Const(solve(lhs, rhs)[n]))] >>

\* verified, details = _verify_equation(lhs, rhs, x0); a failure raises
VerifyEq(i) ==
    /\ pc[i] = "verify" /\ kind[i] = "eq"
    /\ LET v == verify_equation(equation[i].lhs, equation[i].rhs, x0[i])
       IN  /\ verified' = [verified EXCEPT ![i] = v]
           /\ verification_details' =
                [verification_details EXCEPT
                    ![i] = equation_details(equation[i].lhs, equation[i].rhs, x0[i])]
           /\ IF ~v
              THEN /\ pc' = [pc EXCEPT ![i] = "raised"]
                   /\ error' = [error EXCEPT ![i] = "RuntimeError"]
              ELSE /\ pc' = [pc EXCEPT ![i] = "steps"]
                   /\ error' = error
    /\ UNCHANGED << kind, difficulty, x0, drawn_target, a, c, equation, inequality, steps, problem,
                    shared >>

ConstructStepsEq(i) ==
    /\ pc[i] = "steps" /\ kind[i] = "eq"
    /\ steps' = [steps EXCEPT
                    ![i] = construct_solution_steps(difficulty[i], equation[i].lhs,
                                                    equation[i].rhs, x0[i])]
    /\ pc' = [pc EXCEPT ![i] = "assemble"]
    /\ UNCHANGED << kind, difficulty, x0, drawn_target, a, c, equation, inequality, verified,
                    verification_details, problem, error, shared >>

AssembleEq(i) ==
    /\ pc[i] = "assemble" /\ kind[i] = "eq"
    /\ problem' = [problem EXCEPT
                      ![i] = << equation_problem(difficulty[i], equation[i].lhs,
                                                 equation[i].rhs, x0[i], steps[i],
                                                 verified[i], verification_details[i]) >>]
    /\ pc' = [pc EXCEPT ![i] = "returned"]
    /\ UNCHANGED << kind, difficulty, x0, drawn_target, a, c, equation, inequality, verified,
                    verification_details, steps, error, shared >>

-----------------------------------------------------------------------------
(* generate_linear_inequality_problem, step by step.                       *)

BuiltIneq(i, ineq, target) ==
    /\ inequality' = [inequality EXCEPT ![i] = ineq]
    /\ drawn_target' = [drawn_target EXCEPT ![i] = target]
    /\ pc' = [pc EXCEPT ![i] = "verify"]
    /\ UNCHANGED << kind, difficulty, x0, a, c, equation, verified, verification_details,
                    steps, problem, error, generators, CONCEPTS,
                    adaptive, library >>

BuildIneq1(i, P) ==
    /\ pc[i] = "build" /\ kind[i] = "ineq" /\ difficulty[i] = 1
    /\ \E op \in Operators \cap P.ops, target \in randint(-IneqD1TargetMax, IneqD1TargetMax, P.t) :
         BuiltIneq(i, build_difficulty_1_inequality(op, target), target)
    /\ Drawn(2)

BuildIneq2(i, P) ==
    /\ pc[i] = "build" /\ kind[i] = "ineq" /\ difficulty[i] = 2
    /\ \E op \in Operators \cap P.ops, first \in BOOLEAN :
         IF first
         THEN \E coeff \in randint(2, IneqD2CoeffMax, P.k),
                 target \in randint(-IneqD2TargetMax, IneqD2TargetMax, P.t) :
                BuiltIneq(i, build_difficulty_2_inequality(op, first, coeff, 0, target), target)
         ELSE \E const \in randint(-IneqD2ConstMax, IneqD2ConstMax, P.o),
                 target \in randint(-IneqD2bTargetMax, IneqD2bTargetMax, P.t) :
                BuiltIneq(i, build_difficulty_2_inequality(op, first, 1, const, target), target)
    /\ Drawn(4)

BuildIneq3(i, P) ==
    /\ pc[i] = "build" /\ kind[i] = "ineq" /\ difficulty[i] = 3
    /\ \E op \in Operators \cap P.ops, coeff \in randint(2, IneqD3CoeffMax, P.k),
          const \in randint(-IneqD3ConstMax, IneqD3ConstMax, P.o),
          target \in randint(-IneqD3TargetMax, IneqD3TargetMax, P.t) :
         BuiltIneq(i, build_difficulty_3_inequality(op, coeff, const, target), target)
    /\ Drawn(4)

BuildIneq4(i, P) ==
    /\ pc[i] = "build" /\ kind[i] = "ineq" /\ difficulty[i] \notin {1, 2, 3}
    /\ \E op \in Operators \cap P.ops, negative \in BOOLEAN,
          const \in randint(-IneqD4ConstMax, IneqD4ConstMax, P.o),
          target \in randint(-IneqD4TargetMax, IneqD4TargetMax, P.t) :
         \E coeff \in IF negative THEN randint(-IneqD4CoeffMax, -2, P.k)
                      ELSE randint(2, IneqD4CoeffMax, P.k) :
            BuiltIneq(i, build_difficulty_4_inequality(op, coeff, const, target), target)
    /\ Drawn(5)

\* is_valid, details = _verify_inequality(inequality); a failure raises
VerifyIneq(i) ==
    /\ pc[i] = "verify" /\ kind[i] = "ineq"
    /\ LET v == verify_inequality(inequality[i])
       IN  /\ verified' = [verified EXCEPT ![i] = v.is_valid]
           /\ verification_details' = [verification_details EXCEPT ![i] = v.details]
           /\ IF ~v.is_valid
              THEN /\ pc' = [pc EXCEPT ![i] = "raised"]
                   /\ error' = [error EXCEPT ![i] = "ValueError"]
              ELSE /\ pc' = [pc EXCEPT ![i] = "steps"]
                   /\ error' = error
    /\ UNCHANGED << kind, difficulty, x0, drawn_target, a, c, equation, inequality, steps, problem,
                    shared >>

ConstructStepsIneq(i) ==
    /\ pc[i] = "steps" /\ kind[i] = "ineq"
    /\ steps' = [steps EXCEPT ![i] = construct_inequality_steps(inequality[i])]
    /\ pc' = [pc EXCEPT ![i] = "assemble"]
    /\ UNCHANGED << kind, difficulty, x0, drawn_target, a, c, equation, inequality, verified,
                    verification_details, problem, error, shared >>

AssembleIneq(i) ==
    /\ pc[i] = "assemble" /\ kind[i] = "ineq"
    /\ problem' = [problem EXCEPT
                      ![i] = << inequality_problem(difficulty[i], inequality[i], steps[i],
                                                   verified[i], verification_details[i]) >>]
    /\ pc' = [pc EXCEPT ![i] = "returned"]
    /\ UNCHANGED << kind, difficulty, x0, drawn_target, a, c, equation, inequality, verified,
                    verification_details, steps, error, shared >>

\* the caller has the Problem or the exception; the frame is gone
Return(i) ==
    /\ pc[i] \in {"returned", "raised"}
    /\ pc' = [pc EXCEPT ![i] = "idle"]
    /\ kind' = [kind EXCEPT ![i] = "none"]
    /\ difficulty' = [difficulty EXCEPT ![i] = 0]
    /\ x0' = [x0 EXCEPT ![i] = 0]
    /\ drawn_target' = [drawn_target EXCEPT ![i] = 0]
    /\ a' = [a EXCEPT ![i] = RZero]
    /\ c' = [c EXCEPT ![i] = RZero]
    /\ equation' = [equation EXCEPT ![i] = NoEquation]
    /\ inequality' = [inequality EXCEPT ![i] = NoInequality]
    /\ verified' = [verified EXCEPT ![i] = FALSE]
    /\ verification_details' = [verification_details EXCEPT ![i] = << >>]
    /\ steps' = [steps EXCEPT ![i] = << >>]
    /\ problem' = [problem EXCEPT ![i] = << >>]
    /\ error' = [error EXCEPT ![i] = "none"]
    /\ UNCHANGED shared

-----------------------------------------------------------------------------
(* One caller: every tier of both generators, over FullDraws.              *)

Init == InitCalls({1}) /\ InitShared

Next ==
    \/ Call(1, FullDraws)
    \/ ChooseTarget(1, FullDraws)
    \/ BuildEq1(1, FullDraws)
    \/ DrawA2(1, FullDraws)
    \/ RerollA2(1, FullDraws)
    \/ BuildEq2(1, FullDraws)
    \/ DrawA3(1, FullDraws)
    \/ RerollA3(1, FullDraws)
    \/ DrawC3(1, FullDraws)
    \/ RerollC3(1, FullDraws)
    \/ BuildEq3(1, FullDraws)
    \/ DrawAC4(1, FullDraws)
    \/ RerollC4(1, FullDraws)
    \/ BuildEq4(1, FullDraws)
    \/ VerifyEq(1)
    \/ ConstructStepsEq(1)
    \/ AssembleEq(1)
    \/ BuildIneq1(1, FullDraws)
    \/ BuildIneq2(1, FullDraws)
    \/ BuildIneq3(1, FullDraws)
    \/ BuildIneq4(1, FullDraws)
    \/ VerifyIneq(1)
    \/ ConstructStepsIneq(1)
    \/ AssembleIneq(1)
    \/ Return(1)

Spec == Init /\ [][Next]_vars

-----------------------------------------------------------------------------
(* Properties of the linear-equation generator.                            *)

\* the value of k*x + m at x = v
Eval(e, v) == RAdd(RMul(e.k, v), e.m)

\* the equation lhs = rhs has the solution set {v}
UniqueSolution(lhs, rhs, v) == lhs.k # rhs.k /\ Eval(lhs, v) = Eval(rhs, v)

\* the call has an equation / an inequality built by its constructor
HasEquation(i) == kind[i] = "eq" /\ pc[i] \in {"verify", "steps", "assemble", "returned"}
HasInequality(i) == kind[i] = "ineq" /\ pc[i] \in {"verify", "steps", "assemble", "returned"}
PastVerify(i) == pc[i] \in {"steps", "assemble", "returned"}

\* C1: at every tier, for every target and every admissible draw, the
\* equation the constructor built has the solution set exactly {x0}; the
\* verifier then reports verified = True and no call raises the
\* verification failure (RuntimeError).
C1_RoundTrip ==
    \A i \in DOMAIN pc :
        /\ HasEquation(i) =>
              UniqueSolution(equation[i].lhs, equation[i].rhs, RInt(x0[i]))
        /\ (kind[i] = "eq" /\ PastVerify(i)) => verified[i]
        /\ error[i] # "RuntimeError"

\* a verified Tier 4 problem with a non-integer coefficient and a non-zero
\* target has been returned
C1_Witness ==
    /\ pc[1] = "returned" /\ kind[1] = "eq" /\ difficulty[1] = 4
    /\ equation[1].lhs.k[2] # 1
    /\ x0[1] # 0
    /\ verified[1]

\* C2: every Problem returned carries sympy_verified = True, and a call
\* whose verifier has not reported True has no Problem and no steps: a
\* failed verification raises, with nothing returned and no new draws.
C2_VerifyOrAbort ==
    \A i \in DOMAIN pc :
        /\ problem[i] # << >> => problem[i][1].solution.sympy_verified = TRUE
        /\ ~verified[i] => problem[i] = << >> /\ steps[i] = << >>
        /\ pc[i] = "raised" => problem[i] = << >> /\ steps[i] = << >>

\* an inequality problem has been returned with its flag set
C2_Witness ==
    /\ pc[1] = "returned" /\ kind[1] = "ineq"
    /\ problem[1] # << >>
    /\ problem[1][1].solution.sympy_verified

\* C3: a call with a difficulty outside 1..4 raises ValueError and returns
\* no Problem; a call with a difficulty in 1..4 does not raise ValueError.
C3_DifficultyGuard ==
    \A i \in DOMAIN pc :
        pc[i] # "idle" =>
            /\ difficulty[i] \notin 1 .. 4 =>
                  pc[i] = "raised" /\ error[i] = "ValueError" /\ problem[i] = << >>
            /\ difficulty[i] \in 1 .. 4 => pc[i] # "raised" /\ error[i] = "none"

\* the inequality generator has refused difficulty 5
C3_Witness ==
    pc[1] = "raised" /\ kind[1] = "ineq" /\ difficulty[1] = 5 /\ error[1] = "ValueError"

\* C4: in every Tier 3 and Tier 4 equation a*x + b = c*x + d the
\* coefficients a and c are nonzero and different, whatever was drawn.
C4_NoDegenerate ==
    \A i \in DOMAIN pc :
        (HasEquation(i) /\ difficulty[i] \in {3, 4}) =>
            /\ equation[i].lhs.k # equation[i].rhs.k
            /\ equation[i].lhs.k # RZero
            /\ equation[i].rhs.k # RZero

\* a Tier 3 equation with opposite coefficients came out of the loops
C4_Witness ==
    /\ HasEquation(1) /\ difficulty[1] = 3
    /\ equation[1].lhs.k = RNeg(equation[1].rhs.k)

-----------------------------------------------------------------------------
(* Properties of the derivations.                                          *)

\* the LaTeX of an integer, of the variable, and of "x = n"
TexOfInt(n) == << [sgn |-> IF n < 0 THEN "-" ELSE "+", num |-> Abs(n), den |-> 1, var |-> ""] >>
TexOfX == << [sgn |-> "+", num |-> 1, den |-> 1, var |-> "x"] >>
TexOfAnswer(n) == [lhs |-> TexOfX, rhs |-> TexOfInt(n)]

\* C5: the derivation of a returned problem is non-empty; its last step's
\* expression is "x = final_answer" for an equation, and is the final_answer
\* (the solution set) for an inequality; the equation's final_answer is
\* the target.
C5_EndsInAnswer ==
    \A i \in DOMAIN pc :
        /\ pc[i] \in {"assemble", "returned"} => Len(steps[i]) > 0
        /\ pc[i] = "returned" =>
              LET p == problem[i][1]
                  st == p.solution.steps
              IN  /\ Len(st) > 0
                  /\ kind[i] = "eq" =>
                        /\ p.final_answer = x0[i]
                        /\ st[Len(st)].expression_latex = TexOfAnswer(p.final_answer)
                  /\ kind[i] = "ineq" =>
                        st[Len(st)].expression_latex = p.final_answer

\* a Tier 3 equation with a negative answer has been returned
C5_Witness ==
    /\ pc[1] = "returned" /\ kind[1] = "eq" /\ difficulty[1] = 3
    /\ problem[1][1].final_answer < 0
    /\ Len(problem[1][1].solution.steps) = 4

\* the expression a LaTeX string denotes
TermValue(t) == Rational(IF t.sgn = "-" THEN -t.num ELSE t.num, t.den)
UnTex(tex) ==
    LET xs == {n \in 1 .. Len(tex) : tex[n].var = "x"}
        ms == {n \in 1 .. Len(tex) : tex[n].var = ""}
    IN  Expr(IF xs = {} THEN RZero ELSE TermValue(tex[CHOOSE n \in xs : TRUE]),
             IF ms = {} THEN RZero ELSE TermValue(tex[CHOOSE n \in ms : TRUE]))
UnTexEq(tex) == [lhs |-> UnTex(tex.lhs), rhs |-> UnTex(tex.rhs)]

\* the equation a step starts from: the problem's, or the previous step's
Before(i, n) ==
    IF n = 1 THEN equation[i] ELSE UnTexEq(steps[i][n - 1].expression_latex)

\* the step's equation is the one before it with the operation its
\* description names applied to both sides
Applies(step, before) ==
    LET after == UnTexEq(step.expression_latex)
        arg == UnTex(step.description_latex.arg)
    IN  IF step.description_latex.op = "Subtract"
        THEN after = [lhs |-> ESub(before.lhs, arg), rhs |-> ESub(before.rhs, arg)]
        ELSE IF step.description_latex.op = "Divide"
        THEN /\ arg.k = RZero /\ arg.m # RZero
             /\ after = [lhs |-> EDiv(before.lhs, arg.m), rhs |-> EDiv(before.rhs, arg.m)]
        ELSE step.description_latex.op = "Simplify" /\ after = before

\* C6: in every linear-equation derivation each step's expression is an
\* equation with the target as its unique solution (so equivalent to the
\* step before it and to the problem), and it is the equation before it
\* with the operation named in the step's description applied to both sides.
C6_StepsEquivalent ==
    \A i \in DOMAIN pc :
        (kind[i] = "eq" /\ pc[i] \in {"assemble", "returned"}) =>
            \A n \in 1 .. Len(steps[i]) :
                /\ UniqueSolution(UnTexEq(steps[i][n].expression_latex).lhs,
                                  UnTexEq(steps[i][n].expression_latex).rhs, RInt(x0[i]))
                /\ Applies(steps[i][n], Before(i, n))

\* a Tier 4 derivation with all four steps and a fractional divisor
C6_Witness ==
    /\ pc[1] = "assemble" /\ kind[1] = "eq" /\ difficulty[1] = 4
    /\ Len(steps[1]) = 4
    /\ steps[1][3].description_latex.op = "Divide"
    /\ UnTex(steps[1][3].description_latex.arg).m[2] # 1

-----------------------------------------------------------------------------
(* Properties of the linear-inequality generator.                          *)

\* the relational operator printed in a step's expression, if any
OperatorOf(expression) ==
    IF \E n \in 1 .. Len(expression) : expression[n] \in Operators
    THEN expression[CHOOSE n \in 1 .. Len(expression) : expression[n] \in Operators]
    ELSE "none"

\* a step description that divides or multiplies and says that the
\* direction of the inequality is reversed
StatesReversal(description) ==
    description.op \in {"Divide both sides and reverse the inequality",
                        "Multiply both sides and reverse the inequality"}

\* the coefficient of x that has to be divided away
IsolatingCoefficient(i) == sympify(inequality[i].left_expr_str).k

\* C7: the derivation of every Tier 3 or Tier 4 inequality with a negative
\* isolating coefficient has a division/multiplication step whose
\* description states the reversal and whose operator is the reverse of
\* the operator of the step before it.
C7_SignFlipShown ==
    \A i \in DOMAIN pc :
        (kind[i] = "ineq" /\ pc[i] = "returned" /\ difficulty[i] \in {3, 4}
             /\ RLess(IsolatingCoefficient(i), RZero)) =>
            \E n \in 2 .. Len(steps[i]) :
                /\ StatesReversal(steps[i][n].description_latex)
                /\ OperatorOf(steps[i][n - 1].expression_latex) \in Operators
                /\ OperatorOf(steps[i][n].expression_latex)
                       = flip(OperatorOf(steps[i][n - 1].expression_latex))

\* the constructor's target: the integer printed as the right-hand side
TargetOf(i) == sympify(inequality[i].right_expr_str).m

\* v is inside the set or on its boundary
InClosure(v, set) ==
    IF set.rel \in {"<", "<="} THEN ~RLess(set.bound, v)
    ELSE IF set.rel \in {">", ">="} THEN ~RLess(v, set.bound)
    ELSE set.rel = "Reals"

\* C8: the inequality verifier reports verified = True only if the
\* constructor's target lies inside the solved solution set or on its
\* boundary.
C8_TargetInSolutionSet ==
    \A i \in DOMAIN pc :
        (kind[i] = "ineq" /\ PastVerify(i) /\ verified[i]) =>
            InClosure(TargetOf(i), solution_set(inequality[i]))

\* the table of C9
ConceptOfTier(k, t) ==
    IF k = "eq"
    THEN (IF t = 1 THEN "alg1.linear_eq.one_step_int"
          ELSE IF t = 2 THEN "alg1.linear_eq.two_step_int"
          ELSE IF t = 3 THEN "alg1.linear_eq.multistep_one_side"
          ELSE "alg1.linear_eq.both_sides")
    ELSE (IF t = 1 THEN "alg1.linear_ineq.one_step_int"
          ELSE IF t = 2 THEN "alg1.linear_ineq.two_step_int"
          ELSE IF t = 3 THEN "alg1.linear_ineq.negative_coeff_reverse"
          ELSE "alg1.linear_ineq.rational_coeffs")

\* C9: the primary_concept_id of a returned problem of tier t is the
\* table's entry for t, whatever was drawn, and concept_ids is exactly
\* [primary_concept_id].
C9_ConceptByTier ==
    \A i \in DOMAIN pc :
        pc[i] = "returned" =>
            /\ problem[i][1].difficulty = difficulty[i]
            /\ problem[i][1].primary_concept_id = ConceptOfTier(kind[i], difficulty[i])
            /\ problem[i][1].concept_ids = << problem[i][1].primary_concept_id >>

\* a Tier 4 equation has been returned with its tag
C9_Witness ==
    /\ pc[1] = "returned" /\ kind[1] = "eq" /\ difficulty[1] = 4
    /\ problem[1][1].primary_concept_id = "alg1.linear_eq.both_sides"

-----------------------------------------------------------------------------
(* Concurrent callers: NumCalls generate calls whose steps interleave.     *)
(* The draws are kept few (Tier 1 of both generators, one operator, the    *)
(* targets 0 .. ConcCap, b = 1) so that the interleavings can be explored. *)

ConcCalls == 1 .. NumCalls

ConcDraws ==
    [t |-> 0 .. ConcCap,
     o |-> {1},
     k |-> {},
     d |-> {0, 1},
     ops |-> {">="},
     g |-> {"eq", "ineq"}]

InitConc == InitCalls(ConcCalls) /\ InitShared

NextConc ==
    \E i \in ConcCalls :
        \/ Call(i, ConcDraws)
        \/ ChooseTarget(i, ConcDraws)
        \/ BuildEq1(i, ConcDraws)
        \/ VerifyEq(i)
        \/ ConstructStepsEq(i)
        \/ AssembleEq(i)
        \/ BuildIneq1(i, ConcDraws)
        \/ VerifyIneq(i)
        \/ ConstructStepsIneq(i)
        \/ AssembleIneq(i)
        \/ Return(i)

SpecConc == InitConc /\ [][NextConc]_vars

\* everything a call holds
LocalsOf(i) ==
    << pc[i], kind[i], difficulty[i], x0[i], drawn_target[i], a[i], c[i], equation[i],
       inequality[i], verified[i], verification_details[i], steps[i], problem[i],
       error[i] >>

\* the Problem the call returns is verified and is about the call's own
\* target: an equation whose unique solution, final answer and last step
\* are the target drawn by this call; an inequality whose right-hand side
\* is the target drawn by this call and whose answer and last step are its
\* solution set
OwnResult(i) ==
    LET p == problem[i][1]
        st == p.solution.steps
    IN  /\ p.solution.sympy_verified
        /\ kind[i] = "eq" =>
              /\ p.final_answer = drawn_target[i]
              /\ UniqueSolution(UnTexEq(p.prompt_latex.body).lhs,
                                UnTexEq(p.prompt_latex.body).rhs, RInt(drawn_target[i]))
              /\ st[Len(st)].expression_latex = TexOfAnswer(drawn_target[i])
        /\ kind[i] = "ineq" =>
              /\ p.prompt_latex[Len(p.prompt_latex)] = str(drawn_target[i])
              /\ p.final_answer
                     = strSet(solve_univariate_inequality(
                                  X, OperatorOf(p.prompt_latex), Const(RInt(drawn_target[i]))))
              /\ st[Len(st)].expression_latex = p.final_answer

\* C10: with the calls' steps interleaved in any order, a step writes the
\* locals of one call only and leaves the generator registry and the
\* concept registry as they were (the random source alone is shared and
\* written); and every call with a difficulty in 1..4 ends without an
\* exception, returning a verified problem that is about its own target
\* (stated of the state a step starts from: every call that has ended takes
\* the step Return).
C10_NoInterference ==
    [][ /\ generators' = generators
        /\ CONCEPTS' = CONCEPTS
        /\ \A i, j \in ConcCalls :
              i # j => (LocalsOf(i)' = LocalsOf(i) \/ LocalsOf(j)' = LocalsOf(j))
        /\ \A i \in ConcCalls :
              /\ pc[i] = "raised" => difficulty[i] \notin 1 .. 4
              /\ pc[i] = "returned" => OwnResult(i)
      ]_vars

\* two calls have returned problems with different targets while a third
\* step sequence is possible: both generators were in flight together
C10_Witness ==
    /\ pc[1] = "returned" /\ pc[2] = "returned"
    /\ kind[1] = "eq" /\ kind[2] = "ineq"
    /\ drawn_target[1] # drawn_target[2]
    /\ problem[1][1].final_answer = drawn_target[1]

-----------------------------------------------------------------------------
(* Properties of the shape of the linear-equation derivations.             *)

\* a linear-equation call that has returned its Problem at the given tier
ReturnedEq(i, tier) == kind[i] = "eq" /\ pc[i] = "returned" /\ difficulty[i] = tier

\* what a step does, read from its description
StepKind(step) ==
    IF step.description_latex.op = "Subtract"
    THEN IF \E n \in 1 .. Len(step.description_latex.arg) :
                step.description_latex.arg[n].var = "x"
         THEN "move_variable"
         ELSE "move_constant"
    ELSE IF step.description_latex.op = "Divide" THEN "divide"
    ELSE "answer"

\* the place of a kind of step in the fixed order
Rank(k) ==
    IF k = "move_variable" THEN 1
    ELSE IF k = "move_constant" THEN 2
    ELSE IF k = "divide" THEN 3
    ELSE 4

\* the steps come in the fixed order, none twice
InFixedOrder(st) ==
    \A m, n \in 1 .. Len(st) : m < n => Rank(StepKind(st[m])) < Rank(StepKind(st[n]))

\* C11: every Tier 3 derivation has exactly 3 or 4 steps, in the fixed
\* order: move the variable term, move the constant, divide by the
\* remaining coefficient.
C11_Tier3ThreeOrFourSteps ==
    \A i \in DOMAIN pc :
        ReturnedEq(i, 3) =>
            /\ Len(steps[i]) \in {3, 4}
            /\ StepKind(steps[i][1]) = "move_variable"
            /\ InFixedOrder(steps[i])

\* C12: every Tier 2 derivation has 2 or 3 steps: (subtract the constant
\* term,) divide by the leading coefficient, which the description of the
\* step shows, and state the answer.
C12_Tier2Steps ==
    \A i \in DOMAIN pc :
        ReturnedEq(i, 2) =>
            LET st == steps[i]
                n == Len(st)
            IN  /\ n \in {2, 3}
                /\ StepKind(st[n]) = "answer"
                /\ StepKind(st[n - 1]) = "divide"
                /\ st[n - 1].description_latex.arg = latex(Const(equation[i].lhs.k))
                /\ n = 3 =>
                      /\ StepKind(st[1]) = "move_constant"
                      /\ st[1].description_latex.arg = latex(Const(equation[i].lhs.m))

\* a Tier 2 derivation of two steps that divides by a negative coefficient
C12_Witness ==
    /\ ReturnedEq(1, 2)
    /\ Len(steps[1]) = 2
    /\ steps[1][1].description_latex.arg[1].sgn = "-"

\* C13: every difficulty-2 problem has a derivation of at least 3 steps.
C13_Tier2AtLeastThree ==
    \A i \in DOMAIN pc : ReturnedEq(i, 2) => Len(steps[i]) >= 3

\* C14: a Tier 1 derivation never has more steps than a Tier 4 derivation:
\* every Tier 1 derivation has at most two steps, and every Tier 4
\* derivation has at least two.
C14_Tier1NoLongerThanTier4 ==
    \A i \in DOMAIN pc :
        /\ ReturnedEq(i, 1) => Len(steps[i]) <= 2
        /\ ReturnedEq(i, 4) => Len(steps[i]) >= 2

\* the shortest Tier 4 derivation: b = 0 and a - c = 1 with fractions
C14_Witness ==
    /\ ReturnedEq(1, 4)
    /\ Len(steps[1]) = 2
    /\ equation[1].lhs.k[2] # 1

\* C15: the k-th step of a linear-equation derivation, counted from 0, has
\* index k, also where an optional step is left out.
C15_StepIndexing ==
    \A i \in DOMAIN pc :
        (kind[i] = "eq" /\ pc[i] \in {"assemble", "returned"}) =>
            \A n \in 1 .. Len(steps[i]) : steps[i][n].index = n - 1

\* a Tier 3 derivation without its subtract-constant step
C15_Witness ==
    /\ ReturnedEq(1, 3)
    /\ Len(steps[1]) = 3
    /\ StepKind(steps[1][2]) = "divide"

\* C16: in every Tier 4 equation a*x + b = c*x + d the constants b and d
\* are integers.
C16_Tier4IntegerConstants ==
    \A i \in DOMAIN pc :
        (HasEquation(i) /\ difficulty[i] = 4) =>
            /\ equation[i].lhs.m[2] = 1
            /\ equation[i].rhs.m[2] = 1

\* the magnitude of a rational
RAbs(r) == <<Abs(r[1]), r[2]>>

\* the variable term of the side whose coefficient is no larger in
\* magnitude than the other side's
WeakerTerms(eq) ==
    {Expr(k, RZero) : k \in {kk \in {eq.lhs.k, eq.rhs.k} :
                               /\ ~RLess(RAbs(eq.lhs.k), RAbs(kk))
                               /\ ~RLess(RAbs(eq.rhs.k), RAbs(kk))}}

\* C24: the first step of every Tier 3 and Tier 4 derivation subtracts the
\* variable term whose coefficient has the smaller magnitude of the two
\* sides' coefficients.
C24_SubtractsWeakerTerm ==
    \A i \in DOMAIN pc :
        (ReturnedEq(i, 3) \/ ReturnedEq(i, 4)) =>
            /\ StepKind(steps[i][1]) = "move_variable"
            /\ \E term \in WeakerTerms(equation[i]) :
                   steps[i][1].description_latex.arg = latex(term)

\* C25: the leading coefficient a of a Tier 2 equation is never 0 and
\* never 1, and every Tier 2 derivation has a divide step, whose description
\* shows exactly a.
C25_Tier2GenuineDivision ==
    \A i \in DOMAIN pc :
        /\ (HasEquation(i) /\ difficulty[i] = 2) =>
               equation[i].lhs.k \notin {RZero, ROne}
        /\ ReturnedEq(i, 2) =>
               \E n \in 1 .. Len(steps[i]) :
                   /\ steps[i][n].description_latex.op = "Divide"
                   /\ steps[i][n].description_latex.arg = latex(Const(equation[i].lhs.k))
                   /\ \A m \in 1 .. Len(steps[i]) :
                          steps[i][m].description_latex.op = "Divide" => m = n

\* a Tier 2 derivation that divides by -1, after subtracting the constant
C25_Witness ==
    /\ ReturnedEq(1, 2)
    /\ equation[1].lhs.k = RInt(-1)
    /\ Len(steps[1]) = 3
    /\ steps[1][2].description_latex.arg = << TexTerm(RInt(-1), "") >>

\* C30: the concept registered under the primary_concept_id of a returned
\* problem of tier t admits t: difficulty_min <= t <= difficulty_max.
C30_ConceptAdmitsTier ==
    \A i \in DOMAIN pc :
        pc[i] = "returned" =>
            /\ problem[i][1].primary_concept_id \in DOMAIN CONCEPTS
            /\ CONCEPTS[problem[i][1].primary_concept_id].difficulty_min
                   <= problem[i][1].difficulty
            /\ problem[i][1].difficulty
                   <= CONCEPTS[problem[i][1].primary_concept_id].difficulty_max

-----------------------------------------------------------------------------
(* Termination of the constructors.  One caller of the linear-equation    *)
(* generator at the tiers whose constructors re-draw integer coefficients  *)
(* (2 and 3), with every coefficient draw of the source and few targets    *)
(* and offsets.  A constructor that has started keeps running: while it is *)
(* in a re-draw loop, the loop's next step (one more draw, or the exit     *)
(* from the loop) is taken.  Nothing is assumed of the values the random   *)
(* source returns.                                                         *)

LoopDraws ==
    [t |-> 0 .. ConcCap,
     o |-> {0},
     k |-> -EqCoeffMax .. EqCoeffMax,
     d |-> {2, 3},
     ops |-> {},
     g |-> {"eq"}]

\* the steps a constructor takes from inside its re-draw loops
LoopSteps ==
    \/ RerollA2(1, LoopDraws)
    \/ BuildEq2(1, LoopDraws)
    \/ RerollA3(1, LoopDraws)
    \/ DrawC3(1, LoopDraws)
    \/ RerollC3(1, LoopDraws)
    \/ BuildEq3(1, LoopDraws)

NextLoops ==
    \/ Call(1, LoopDraws)
    \/ ChooseTarget(1, LoopDraws)
    \/ DrawA2(1, LoopDraws)
    \/ DrawA3(1, LoopDraws)
    \/ LoopSteps
    \/ VerifyEq(1)
    \/ ConstructStepsEq(1)
    \/ AssembleEq(1)
    \/ Return(1)

SpecLoops == Init /\ [][NextLoops]_vars /\ WF_vars(LoopSteps)

\* the call is inside a re-draw loop of a constructor
InRerollLoop(i) == pc[i] \in {"d2_loop", "d3_a_loop", "d3_c_loop"}

\* C17: every re-draw loop of the equation constructors ends, with the
\* equation built or with a construction error, after a bounded number of
\* iterations, so construct terminates for every sequence of random draws
\* (stated of the loops of Tiers 2 and 3).
C17_RerollLoopsEnd ==
    InRerollLoop(1) ~> pc[1] \in {"verify", "raised"}

-----------------------------------------------------------------------------
(* The difficulty recommendation.  A caller builds a list of attempts, one *)
(* attempt at a time, and calls recommend_difficulty_for_user with it.     *)
(* The caller asks for user u1 and topic t1; the list holds attempts of    *)
(* that user on that topic, at the lowest and the highest level, correct   *)
(* or not, and attempts of another user and on another topic.  The list    *)
(* is one longer than the window, so that an attempt can fall out of it.   *)

MaxAttempts == RecentWindow + 1

AttemptDraws ==
    {Attempt("u1", "t1", d, ok) : d \in {1, MaxLevel}, ok \in BOOLEAN}
        \cup {Attempt("u2", "t1", MaxLevel, TRUE), Attempt("u1", "t2", MaxLevel, TRUE)}

RequestDraws ==
    {[user_id |-> "u1", topic_id |-> "t1", min_difficulty |-> b[1],
      max_difficulty |-> b[2], default_difficulty |-> d] :
        b \in {<<1, 1>>, <<1, MaxLevel>>, <<MaxLevel, MaxLevel>>},
        d \in {0, 1, MaxLevel + 1}}

\* the caller appends an attempt to the list it will pass
RecordAttempt ==
    /\ request = NoRequest
    /\ Len(attempts) < MaxAttempts
    /\ \E att \in AttemptDraws : attempts' = Append(attempts, att)
    /\ UNCHANGED << locals, rng, generators, CONCEPTS, request, recommended, library >>

\* recommended = recommend_difficulty_for_user(user_id, topic_id, attempts, ...)
Recommend ==
    /\ request = NoRequest
    /\ \E r \in RequestDraws :
         /\ request' = r
         /\ recommended' =
              << recommend_difficulty_for_user(r.user_id, r.topic_id, attempts,
                                               r.min_difficulty, r.max_difficulty,
                                               r.default_difficulty) >>
    /\ UNCHANGED << locals, rng, generators, CONCEPTS, attempts, library >>

\* the caller has the value
Recommended ==
    /\ request # NoRequest
    /\ request' = NoRequest
    /\ recommended' = << >>
    /\ UNCHANGED << locals, rng, generators, CONCEPTS, attempts, library >>

NextAdaptive == RecordAttempt \/ Recommend \/ Recommended

SpecAdaptive == Init /\ [][NextAdaptive]_vars

-----------------------------------------------------------------------------
(* Properties of the difficulty recommendation.                            *)

\* a recommendation call has returned
Answered == request # NoRequest

\* the places in the list of the attempts of the user on the topic, and of
\* the last five of those
MatchingAt(h, u, t) == {n \in 1 .. Len(h) : h[n].user_id = u /\ h[n].topic_id = t}
RecentAt(h, u, t) ==
    {n \in MatchingAt(h, u, t) : Cardinality({m \in MatchingAt(h, u, t) : m >= n}) <= 5}

\* v brought into lo .. hi
Clamped(v, lo, hi) == IF v < lo THEN lo ELSE IF v > hi THEN hi ELSE v

\* C18: for bounds with min_difficulty <= max_difficulty the value returned
\* lies within them, also when the default or the most recent attempt's
\* difficulty lies outside.
C18_WithinBounds ==
    (Answered /\ request.min_difficulty <= request.max_difficulty) =>
        /\ recommended[1] >= request.min_difficulty
        /\ recommended[1] <= request.max_difficulty

\* the most recent attempt is above the bounds and was answered well
C18_Witness ==
    /\ Answered
    /\ RecentAt(attempts, request.user_id, request.topic_id) # {}
    /\ attempts[Len(attempts)].user_id = request.user_id
    /\ attempts[Len(attempts)].topic_id = request.topic_id
    /\ attempts[Len(attempts)].difficulty > request.max_difficulty
    /\ attempts[Len(attempts)].is_correct
    /\ recommended[1] = request.max_difficulty

\* C19: with a matching attempt the value is clamp(d + delta), d the
\* difficulty of the most recent matching attempt and delta +1 for a success
\* rate above 80% over the last up-to-5 matching attempts, -1 for one below
\* 60%, 0 otherwise; with none it is the clamped default.
C19_Heuristic ==
    Answered =>
        LET recent == RecentAt(attempts, request.user_id, request.topic_id)
            newest == CHOOSE n \in recent : \A m \in recent : m <= n
            correct == Cardinality({n \in recent : attempts[n].is_correct})
            delta == IF 100 * correct > 80 * Cardinality(recent) THEN 1
                     ELSE IF 100 * correct < 60 * Cardinality(recent) THEN -1
                     ELSE 0
        IN  recommended[1] =
                IF recent = {}
                THEN Clamped(request.default_difficulty, request.min_difficulty,
                             request.max_difficulty)
                ELSE Clamped(attempts[newest].difficulty + delta,
                             request.min_difficulty, request.max_difficulty)

\* exactly 80%: four of the last five matching attempts are correct, the
\* difficulty is kept, and an older matching attempt is outside the window
C19_Witness ==
    /\ Answered
    /\ Cardinality(MatchingAt(attempts, request.user_id, request.topic_id)) = 6
    /\ Cardinality({n \in RecentAt(attempts, request.user_id, request.topic_id) :
                        attempts[n].is_correct}) = 4
    /\ attempts[1].is_correct
    /\ attempts[6].difficulty = 1
    /\ request.max_difficulty = MaxLevel
    /\ recommended[1] = 1

\* the k-th smallest element of a set of numbers
Nth(S, k) == CHOOSE n \in S : Cardinality({m \in S : m <= n}) = k

\* the last five attempts of the user on the topic, in their order
Relevant(h, u, t) ==
    [k \in 1 .. Cardinality(RecentAt(h, u, t)) |-> h[Nth(RecentAt(h, u, t), k)]]

\* C20: the value depends only on the last five attempts whose user and
\* topic both match: it is the value returned for the list of those five
\* alone, so two lists that agree on them yield the same value, whatever
\* else they hold and wherever.
C20_OnlyRecentMatching ==
    Answered =>
        recommended[1] =
            recommend_difficulty_for_user(
                request.user_id, request.topic_id,
                Relevant(attempts, request.user_id, request.topic_id),
                request.min_difficulty, request.max_difficulty,
                request.default_difficulty)

\* attempts of another user and on another topic lie between the matching
\* ones, which alone would lower the difficulty
C20_Witness ==
    /\ Answered
    /\ Len(attempts) = 6
    /\ attempts[1].user_id # request.user_id
    /\ attempts[3].topic_id # request.topic_id
    /\ attempts[5].user_id # request.user_id
    /\ ~attempts[2].is_correct /\ ~attempts[4].is_correct /\ ~attempts[6].is_correct
    /\ attempts[6].difficulty = MaxLevel
    /\ request.min_difficulty = 1
    /\ recommended[1] = MaxLevel - 1

-----------------------------------------------------------------------------
(* The closed loop of the recommendation (api.py: GET .../recommend/...    *)
(* and POST /attempt).  A user with no history asks for a recommendation,  *)
(* attempts a problem at the recommended difficulty, the attempt is        *)
(* recorded, and the user asks again, with the same bounds throughout.     *)
(* recommended holds the values returned so far.  The loop keeps running,  *)
(* up to MaxRounds attempts.                                               *)

LoopRequests ==
    {[user_id |-> "u1", topic_id |-> "t1", min_difficulty |-> b[1],
      max_difficulty |-> b[2], default_difficulty |-> d] :
        b \in {<<MinDifficultyDefault, MaxDifficultyDefault>>,
               <<MinDifficultyDefault, MaxLevel>>,
               <<MaxLevel, MaxDifficultyDefault>>},
        d \in {MinDifficultyDefault - 1, DefaultDifficulty, MaxDifficultyDefault + 1}}

\* the first call, of a user with no history
LoopStart ==
    /\ request = NoRequest
    /\ \E r \in LoopRequests :
         /\ request' = r
         /\ recommended' =
                << recommend_difficulty_for_user(
                       r.user_id, r.topic_id, attempts, r.min_difficulty,
                       r.max_difficulty, r.default_difficulty) >>
    /\ UNCHANGED << locals, rng, generators, CONCEPTS, attempts, library >>

\* the user attempts a problem at the difficulty recommended last
LoopAttempt ==
    /\ request # NoRequest
    /\ Len(recommended) = Len(attempts) + 1
    /\ Len(attempts) < MaxRounds
    /\ \E is_correct \in BOOLEAN :
         attempts' = Append(attempts, Attempt(request.user_id, request.topic_id,
                                              recommended[Len(recommended)], is_correct))
    /\ UNCHANGED << locals, rng, generators, CONCEPTS, request, recommended, library >>

\* the next call, on the attempts recorded so far
LoopRecommend ==
    /\ request # NoRequest
    /\ Len(recommended) = Len(attempts)
    /\ recommended' =
           Append(recommended,
                  recommend_difficulty_for_user(
                      request.user_id, request.topic_id, attempts, request.min_difficulty,
                      request.max_difficulty, request.default_difficulty))
    /\ UNCHANGED << locals, rng, generators, CONCEPTS, attempts, request, library >>

NextClosedLoop == LoopStart \/ LoopAttempt \/ LoopRecommend

SpecClosedLoop == Init /\ [][NextClosedLoop]_vars /\ WF_vars(NextClosedLoop)

\* C28: in the closed loop every recommendation lies within the bounds and
\* differs from the one before it by at most 1, whatever the outcomes.
C28_ClosedLoopStepsByOne ==
    \A n \in 1 .. Len(recommended) :
        /\ recommended[n] >= request.min_difficulty
        /\ recommended[n] <= request.max_difficulty
        /\ n > 1 => Abs(recommended[n] - recommended[n - 1]) <= 1

\* the recommendation has gone up, stayed and come down again
C28_Witness ==
    /\ Len(recommended) >= 4
    /\ \E n \in 2 .. Len(recommended) : recommended[n] = recommended[n - 1] + 1
    /\ \E n \in 2 .. Len(recommended) : recommended[n] = recommended[n - 1] - 1
    /\ \E n \in 2 .. Len(recommended) :
           /\ recommended[n] = recommended[n - 1]
           /\ recommended[n] > request.min_difficulty
           /\ recommended[n] < request.max_difficulty

\* every attempt so far was answered correctly / incorrectly
AllCorrect == \A n \in 1 .. Len(attempts) : attempts[n].is_correct
AllIncorrect == \A n \in 1 .. Len(attempts) : ~attempts[n].is_correct

\* the recommendation received last
Latest == recommended[Len(recommended)]

\* C29: in the closed loop a user who answers every attempt correctly
\* eventually receives max_difficulty and keeps receiving it; one who
\* answers every attempt incorrectly eventually receives min_difficulty and
\* keeps receiving it.  (The list of attempts only grows, so a user who has
\* ever failed an attempt is never again one who answers every attempt
\* correctly: from some point on, a user whose attempts so far are all
\* correct is at max_difficulty, and likewise at min_difficulty.)
C29_Saturates ==
    <>[](/\ recommended # << >>
         /\ AllCorrect => Latest = request.max_difficulty
         /\ AllIncorrect => Latest = request.min_difficulty)

\* after five failures from the top the user is at the bottom and stays
C29_Witness ==
    /\ request # NoRequest
    /\ request.max_difficulty - request.min_difficulty = 5
    /\ Len(attempts) = MaxRounds
    /\ AllIncorrect
    /\ recommended[1] = request.max_difficulty
    /\ Len(recommended) = MaxRounds + 1
    /\ recommended[6] = request.min_difficulty
    /\ Latest = request.min_difficulty

-----------------------------------------------------------------------------
(* The problem store: one caller saves, loads and clears problems at one   *)
(* path, in any order.  The problems: one with a solution, one without     *)
(* metadata, one with a solution and a word-problem prompt.                *)

SolutionDraw == [steps |-> << >>, final_answer_latex |-> "3", sympy_verified |-> TRUE]

ProblemDraws ==
    {Problem("p1", 1, "x + 1 = 4", 3, [solution |-> SolutionDraw]),
     Problem("p2", 2, "2 x = -2", -1, << >>),
     Problem("p3", 1, "x + 1 = 4", 3,
             [solution |-> SolutionDraw, word_problem_prompt |-> "Solve: x + 1 = 4"])}

\* the lists given to save_problems_batch: the empty list and the pairs
BatchDraws == {<< >>} \cup {<<p, q>> : p, q \in ProblemDraws}

SaveProblem ==
    /\ Len(file.lines) < MaxLines
    /\ \E p \in ProblemDraws :
         /\ file' = save_problem(p, file)
         /\ saved' = Append(saved, p)
    /\ outcome' = ReturnedNone("save_problem")
    /\ UNCHANGED << locals, rng, generators, CONCEPTS, adaptive >>

SaveProblemsBatch ==
    /\ \E ps \in BatchDraws :
         /\ Len(file.lines) + Len(ps) <= MaxLines
         /\ file' = save_problems_batch(ps, file)
         /\ saved' = saved \o ps
    /\ outcome' = ReturnedNone("save_problems_batch")
    /\ UNCHANGED << locals, rng, generators, CONCEPTS, adaptive >>

ClearProblemsFile ==
    /\ file' = clear_problems_file(file)
    /\ saved' = << >>
    /\ outcome' = ReturnedNone("clear_problems_file")
    /\ UNCHANGED << locals, rng, generators, CONCEPTS, adaptive >>

LoadProblems ==
    /\ outcome' = load_problems(file)
    /\ UNCHANGED << locals, rng, generators, CONCEPTS, adaptive, file, saved >>

NextStorage == SaveProblem \/ SaveProblemsBatch \/ ClearProblemsFile \/ LoadProblems

SpecStorage == Init /\ [][NextStorage]_vars

-----------------------------------------------------------------------------
(* The generator registry in use: after the import has registered the      *)
(* generators of the source, callers register generators of their own,     *)
(* each under its own topic_id, list the topics and look generators up.    *)

CallerGenerators == {"CallerGeneratorA", "CallerGeneratorB", "CallerGeneratorC"}

\* the topics asked for: every registered one and two that never are
TopicDraws ==
    DOMAIN registered_generators \cup {topic_id_of(g) : g \in CallerGenerators}
        \cup {"nonexistent_topic", ""}

RegisterGenerator ==
    /\ \E g \in CallerGenerators :
         generators' = register_generator(generators, topic_id_of(g), g)
    /\ outcome' = ReturnedNone("register_generator")
    /\ UNCHANGED << locals, rng, CONCEPTS, adaptive, file, saved >>

GetGeneratorForTopic ==
    /\ \E t \in TopicDraws : outcome' = get_generator_for_topic(generators, t)
    /\ UNCHANGED << locals, rng, generators, CONCEPTS, adaptive, file, saved >>

ListRegisteredTopics ==
    /\ outcome' = list_registered_topics(generators)
    /\ UNCHANGED << locals, rng, generators, CONCEPTS, adaptive, file, saved >>

NextRegistry == RegisterGenerator \/ GetGeneratorForTopic \/ ListRegisteredTopics

SpecRegistry == Init /\ [][NextRegistry]_vars

\* the legacy topic names the import registers the Algebra 1 generators
\* under a second time
LegacyAliases == {"algebra", "geometry"}

\* a step that is a call of get_generator_for_topic
LookupStep == outcome'.call = "get_generator_for_topic" /\ outcome' # outcome

-----------------------------------------------------------------------------
(* The concept registry with any content: up to three registered concepts  *)
(* whose prerequisite lists name each other, themselves and an id that is  *)
(* never registered, MaxEdges entries in all.  Callers validate the graph  *)
(* and ask for the prerequisites of an id.                                 *)

ConceptIds == {"c1", "c2", "c3", "c4"}
Registrable == ConceptIds \ {"c4"}

\* the lists without repetition over the ids
PrerequisiteLists ==
    {l \in UNION {[1 .. n -> ConceptIds] : n \in 0 .. Min(MaxEdges, Cardinality(ConceptIds))} :
        \A m, n \in 1 .. Len(l) : m # n => l[m] # l[n]}

RECURSIVE Total(_, _)
Total(lists, ids) ==
    IF ids = {} THEN 0
    ELSE LET id == CHOOSE x \in ids : TRUE IN Len(lists[id]) + Total(lists, ids \ {id})

ConceptGraphs ==
    {[id \in DOMAIN lists |->
         [difficulty_min |-> 1, difficulty_max |-> 1, prerequisites |-> lists[id]]] :
       lists \in {l \in UNION {[ids -> PrerequisiteLists] : ids \in SUBSET Registrable} :
                    Total(l, DOMAIN l) <= MaxEdges}}

InitConcepts ==
    /\ InitCalls({1})
    /\ rng = 0
    /\ generators = registered_generators
    /\ CONCEPTS \in ConceptGraphs
    /\ attempts = << >>
    /\ request = NoRequest
    /\ recommended = << >>
    /\ file = NoFile
    /\ saved = << >>
    /\ outcome = NoOutcome

ValidateConceptGraph ==
    /\ outcome' = validate_concept_graph(CONCEPTS)
    /\ UNCHANGED << locals, rng, generators, CONCEPTS, adaptive, file, saved >>

GetPrerequisitesRecursive ==
    /\ \E id \in ConceptIds : outcome' = get_prerequisites_recursive(CONCEPTS, id)
    /\ UNCHANGED << locals, rng, generators, CONCEPTS, adaptive, file, saved >>

NextConcepts == ValidateConceptGraph \/ GetPrerequisitesRecursive

SpecConcepts == InitConcepts /\ [][NextConcepts]_vars

\* the ids one prerequisite entry away from a set of ids
Prerequisites(reg, ids) ==
    UNION {{reg[id].prerequisites[n] : n \in 1 .. Len(reg[id].prerequisites)} :
             id \in ids \cap DOMAIN reg}

\* the ids within n + 1 entries of an id, and the ids one or more entries away
RECURSIVE Within(_, _, _)
Within(reg, id, n) ==
    IF n = 0 THEN Prerequisites(reg, {id})
    ELSE Within(reg, id, n - 1) \cup Prerequisites(reg, Within(reg, id, n - 1))
Reachable(reg, id) == Within(reg, id, Cardinality(ConceptIds))

DanglingPrerequisite(reg) == Prerequisites(reg, DOMAIN reg) \ DOMAIN reg # {}
Cyclic(reg) == \E id \in DOMAIN reg : id \in Reachable(reg, id)

\* C23: validate_concept_graph raises ValueError if and only if a
\* registered concept lists a prerequisite that is not registered or the
\* prerequisite relation has a directed cycle (a self-loop included);
\* otherwise it returns an empty list; the registry is left unchanged.
C23_ValidateRaisesIffInvalid ==
    [][(outcome'.call = "validate_concept_graph" /\ outcome' # outcome) =>
         /\ CONCEPTS' = CONCEPTS
         /\ outcome'.raised = "ValueError" <=>
                (DanglingPrerequisite(CONCEPTS) \/ Cyclic(CONCEPTS))
         /\ outcome'.raised # "ValueError" =>
                (outcome'.raised = "none" /\ outcome'.returned = << >>)]_vars

\* a cycle of three concepts, every prerequisite registered, is refused
C23_Witness ==
    /\ outcome.call = "validate_concept_graph"
    /\ outcome.raised = "ValueError"
    /\ DOMAIN CONCEPTS = Registrable
    /\ CONCEPTS["c1"].prerequisites = << "c3" >>
    /\ CONCEPTS["c3"].prerequisites = << "c2" >>
    /\ CONCEPTS["c2"].prerequisites = << "c1" >>

\* C26: for every registry content, cycles and unregistered prerequisite
\* ids included, get_prerequisites_recursive(c) ends and returns exactly
\* the ids reachable from c by one or more prerequisite entries, c itself
\* left out; the registry is left unchanged.
C26_PrerequisiteClosure ==
    [][(outcome'.call = "get_prerequisites_recursive" /\ outcome' # outcome) =>
         /\ CONCEPTS' = CONCEPTS
         /\ outcome'.raised = "none"
         /\ outcome'.returned = Reachable(CONCEPTS, outcome'.arg) \ {outcome'.arg}]_vars

\* the closure of a concept on a cycle that also leads to an id that is
\* not registered
C26_Witness ==
    /\ outcome.call = "get_prerequisites_recursive"
    /\ outcome.arg = "c1"
    /\ outcome.returned = {"c2", "c4"}
    /\ "c1" \in Reachable(CONCEPTS, "c1")

-----------------------------------------------------------------------------
(* Word problems: the caller holds one Problem object, object 1, and wraps *)
(* it as a word problem any number of times.  An object is named by its    *)
(* index in problem; the wrapper returns a reference.                      *)

ReadingLevels == {"grade_8", "high_school", "college"}

ContextTags ==
    {<< >>, << "money" >>, << "cooking" >>, << "distance", "money" >>, << "travel" >>,
     << "travel", "money" >>}

\* the caller comes to hold a Problem
HoldProblem ==
    /\ \E p \in ProblemDraws : problem' = [problem EXCEPT ![1] = << p >>]
    /\ UNCHANGED << pc, kind, difficulty, x0, drawn_target, a, c, equation, inequality,
                    verified, verification_details, steps, error, shared >>

\* wrap_problem_as_word_problem(problem, reading_level, context_tags): the
\* wrapper binds problem_copy to the object it was given, writes the two
\* metadata entries through that reference and returns it
WrapProblemAsWordProblem ==
    /\ problem[1] # << >>
    /\ \E reading_level \in ReadingLevels, context_tags \in ContextTags :
         /\ problem' = [problem EXCEPT ![1] =
                           << with_word_prompt(problem[1][1],
                                               ProblemStyle(TRUE, reading_level, context_tags)) >>]
         /\ outcome' = [call |-> "wrap_problem_as_word_problem",
                        arg |-> [problem |-> 1, reading_level |-> reading_level,
                                 context_tags |-> context_tags],
                        raised |-> "none", returned |-> << 1 >>]
    /\ UNCHANGED << pc, kind, difficulty, x0, drawn_target, a, c, equation, inequality,
                    verified, verification_details, steps, error, rng, generators,
                    CONCEPTS, adaptive, file, saved >>

NextWordProblem == HoldProblem \/ WrapProblemAsWordProblem

SpecWordProblem == Init /\ [][NextWordProblem]_vars

\* C27: wrapping a Problem as a word problem returns a new Problem object
\* and leaves the Problem it was given as it was: the same prompt_latex,
\* final_answer, embedded solution and metadata keys after the call as
\* before it.
C27_WrapLeavesOriginalUnchanged ==
    [][WrapProblemAsWordProblem =>
         /\ outcome'.returned # << outcome'.arg.problem >>
         /\ problem'[1][1].prompt_latex = problem[1][1].prompt_latex
         /\ problem'[1][1].final_answer = problem[1][1].final_answer
         /\ DOMAIN problem'[1][1].metadata = DOMAIN problem[1][1].metadata
         /\ "solution" \in DOMAIN problem[1][1].metadata =>
                problem'[1][1].metadata.solution = problem[1][1].metadata.solution]_vars

====
